---------------------------- MODULE Spec2Model ----------------------------
(***************************************************************************)
(* State-machine model of the ODDSFORGE simulation and edge-scoring engine *)
(* (src/app.py, src/nba_data.py).                                          *)
(*                                                                         *)
(* Units.  Time is counted in half-minutes since 00:00 UTC of day 0.       *)
(* Probabilities are parts per million (ppm).  Percentages rounded to one  *)
(* decimal are tenths of a percent.  Points (lines, fair values, spreads)  *)
(* are hundredths of a point unless a name says tenths.  Decimal odds are  *)
(* hundredths.  A Monte-Carlo sample is represented by the summary         *)
(* statistics the code extracts from it (its mean and the number of draws  *)
(* on one side of the line); the draw itself is a nondeterministic input.  *)
(***************************************************************************)
EXTENDS Integers, Sequences, FiniteSets, TLC

VARIABLES
    now,                    \* datetime.now(timezone.utc), in half-minutes
    ALERT_DAY,              \* app.py:122
    SENT_ALERTS,            \* app.py:118
    DAILY_SENT_ALERTS,      \* app.py:120
    PREGAME_ALERTS,         \* app.py:119
    SHOW_INJURIES_IN_DAILY, \* os.getenv("SHOW_INJURIES_IN_DAILY") == "true"
    last_run_date,          \* daily_auto_run's local (app.py:1181)
    call,                   \* the run_simulation call that has just returned
    calls,                  \* number of run_simulation calls made so far
    delivered,              \* the alerts handed to send_telegram_alert
    tpc,                    \* position of each worker thread or sweeping task
    tloc                    \* locals of each worker thread or sweeping task

vars == <<now, ALERT_DAY, SENT_ALERTS, DAILY_SENT_ALERTS, PREGAME_ALERTS,
          SHOW_INJURIES_IN_DAILY, last_run_date, call, calls, delivered,
          tpc, tloc>>

-----------------------------------------------------------------------------
(* Generic helpers *)

None == "None"

\* a request without a game time (game_time is None)
NoTime == 0 - 1

Abs(x) == IF x < 0 THEN -x ELSE x

Min(a, b) == IF a <= b THEN a ELSE b

Max(a, b) == IF a >= b THEN a ELSE b

\* the element of a one-element set: Only({F(x) : x \in {e}}) is F(e) with
\* e computed once
Only(S) == CHOOSE x \in S : TRUE

\* Python round(): nearest, ties to even; num may be negative, den > 0
RoundHalfEven(num, den) ==
    LET q == num \div den
        r == num % den
    IN  IF 2 * r < den THEN q
        ELSE IF 2 * r > den THEN q + 1
        ELSE IF q % 2 = 0 THEN q ELSE q + 1

-----------------------------------------------------------------------------
(* Program constants *)

SIMULATIONS == 50000

\* one, as a probability in parts per million
PPM == 1000 * 1000

\* the clock tick is 30 seconds (minutes_to_tip = total_seconds() / 60)
TicksPerMinute == 60 \div 30

TicksPerDay == 1440 * TicksPerMinute

\* today = datetime.now(timezone.utc).date()
DateOf(t) == t \div TicksPerDay

MarketOrder == <<"game", "spread", "h2h", "q1", "q2", "q3", "q4">>

TotalsMarkets == {"game", "q1", "q2", "q3", "q4"}

CoreMarketKeys == {"totals", "spreads", "totals_q1", "totals_q2",
                   "totals_q3", "totals_q4", "totals_h1"}

\* the odds key each totals market reads (app.py:753-764)
OddsKeyOf(market) ==
    CASE market = "game" -> "totals"
      [] market = "q1" -> "totals_q1"
      [] market = "q2" -> "totals_q2"
      [] market = "q3" -> "totals_q3"
      [] market = "q4" -> "totals_q4"
      [] OTHER -> None

-----------------------------------------------------------------------------
(* Math helpers (app.py:174-213) *)

\* 1 / odds, in ppm; odds in hundredths.  Division by zero raises; a
\* negative price has a negative quotient.
implied_prob(odds) ==
    IF odds < 0 THEN 0 - ((PPM * 100) \div (0 - odds))
    ELSE (PPM * 100) \div odds

\* the calibration with strength 1: no shrinkage
calibrate_prob_unshrunk(p) == 500000 + ((p - 500000) * 100) \div 100

\* 0.5 + (p - 0.5) * strength, strength = 0.65
calibrate_prob(p) == 500000 + ((p - 500000) * 65) \div 100

\* the clamp without its lower bound
cap_edge_upper_only(e) == Min(e, 120000)

\* max(min(e, cap), -cap), cap = 0.12
cap_edge(e) == Max(Min(e, 120000), -120000)

\* round(mean(arr < line) * 100, 1): tenths of a percent
percentile_position(below) == RoundHalfEven(below * 1000, SIMULATIONS)

\* lean_signal with the watch bands at 40 and 60 in place of 45 and 55
lean_signal_narrow(edge, pct) ==
    IF edge >= 5000 THEN "BET"
    ELSE IF pct <= 400 THEN "WATCH OVER"
    ELSE IF pct >= 600 THEN "WATCH UNDER"
    ELSE "PASS"

lean_signal(edge, pct) ==
    IF edge >= 5000 THEN "BET"
    ELSE IF pct <= 450 THEN "WATCH OVER"
    ELSE IF pct >= 550 THEN "WATCH UNDER"
    ELSE "PASS"

\* the score with the signed edge in place of its absolute value
confidence_score_signed(edge, fair, line, pct) ==
    Min((edge * 2 + Abs(fair - line) * 150 + Abs(500 - pct) * 500)
            \div 5000, 100)

\* int(min(|edge|*400 + |fair-line|*3 + |50-pct|, 100))
\* edge ppm, fair/line hundredths, pct tenths: common denominator 5000
confidence_score(edge, fair, line, pct) ==
    Min((Abs(edge) * 2 + Abs(fair - line) * 150 + Abs(500 - pct) * 500)
            \div 5000, 100)

confidence_tier(score) ==
    IF score >= 72 THEN "ELITE"
    ELSE IF score >= 67 THEN "VERY STRONG"
    ELSE IF score >= 60 THEN "STRONG"
    ELSE IF score >= 56 THEN "LEAN"
    ELSE "NOISE"

\* win_pct in tenths of a percent
win_prob_tier(win_pct) ==
    IF win_pct >= 720 THEN "ELITE"
    ELSE IF win_pct >= 670 THEN "VERY STRONG"
    ELSE IF win_pct >= 600 THEN "STRONG"
    ELSE IF win_pct >= 560 THEN "LEAN"
    ELSE "NO BET"

\* the moneyline filter without its floor on the price
allow_h2h_bet_any_price(win_pct, fair_odds, tier) ==
    IF tier = "NO BET" THEN FALSE
    ELSE IF win_pct < 520 THEN FALSE
    ELSE IF fair_odds >= 230 /\ tier # "ELITE" THEN FALSE
    ELSE TRUE

\* win_pct tenths of a percent, fair_odds hundredths
allow_h2h_bet(win_pct, fair_odds, tier) ==
    IF tier = "NO BET" THEN FALSE
    ELSE IF fair_odds < 145 THEN FALSE
    ELSE IF win_pct < 520 THEN FALSE
    ELSE IF fair_odds >= 230 /\ tier # "ELITE" THEN FALSE
    ELSE TRUE

allow_spread_bet(win_pct, tier) ==
    IF tier \in {"NO BET", "LEAN"} THEN FALSE
    ELSE IF win_pct < 550 THEN FALSE
    ELSE TRUE

-----------------------------------------------------------------------------
(* Collaborators: team names, fixture times, odds feed, injury feed *)

\* nba_data.team_name_to_abbr: canonical abbreviation, or None
team_name_to_abbr(name) ==
    CASE name = "Denver Nuggets" -> "DEN"
      [] name = "Lakers" -> "LAL"
      [] name = "Celtics" -> "BOS"
      [] name = "Heat" -> "MIA"
      [] OTHER -> None

\* tip-off of the fixture: 00:10 UTC of day 1
TipOff == TicksPerDay + 10 * TicksPerMinute

\* instants at which the clock is observed, as minutes before tip-off (x2)
Instants ==
    { TipOff - 40 * TicksPerMinute,     \* day 0, outside every window
      TipOff - 20 * TicksPerMinute,     \* day 0, inside [15,30]
      TipOff - 13 * TicksPerMinute,     \* day 0, between windows
      TipOff - 10 * TicksPerMinute,     \* day 1 00:00, inside [9,11]
      TipOff + 22 * 60 * TicksPerMinute }   \* day 1, 22:10

SimulationRequest(a, b, t) == [team_a |-> a, team_b |-> b, game_time |-> t]

\* game_time is a required datetime of the request model (app.py:157)
Requests ==
    { SimulationRequest("Denver Nuggets", "Lakers", TipOff),
      SimulationRequest("Springfield", "Lakers", TipOff),
      SimulationRequest("Denver Nuggets", "Springfield", TipOff) }

\* one market of an odds payload (nba_data.py:172-176)
OddsEntry(line, over) == [line |-> line, over_odds |-> over]

\* a price the feed did not carry (.get("price") is None) or a price of 0:
\* implied_prob raises on either
NoPrice == 0

\* fetch_nba_totals_odds(): a map from (home, away) to the markets posted
OddsMaps ==
    { <<>>,
      [k \in {<<"DEN", "LAL">>} |-> <<>>],
      [k \in {<<"DEN", "LAL">>} |-> [m \in {"h2h"} |-> OddsEntry(0, 165)]],
      [k \in {<<"DEN", "LAL">>} |->
          [m \in {"spreads", "h2h"} |-> OddsEntry(-550, 191)]],
      [k \in {<<"DEN", "LAL">>} |->
          [m \in {"totals"} |-> OddsEntry(22450, 200)]],
      [k \in {<<"LAL", "DEN">>} |->
          [m \in {"totals"} |-> OddsEntry(22450, 160)]],
      [k \in {<<"DEN", "LAL">>} |->
          [m \in {"totals_q1", "totals_q2"} |-> OddsEntry(5650, 200)]] }

\* dict.get with a default of {} / None
MapGet(f, k, default) == IF k \in DOMAIN f THEN f[k] ELSE default

\* a dict is truthy when it is not empty
Truthy(d) == DOMAIN d # {}

\* odds_map.get((home, away)) or odds_map.get((away, home))
MatchupOdds(odds_map, home, away) ==
    LET first == MapGet(odds_map, <<home, away>>, <<>>)
    IN  IF Truthy(first) THEN first
        ELSE MapGet(odds_map, <<away, home>>, <<>>)

has_core_market(matchup_odds) == DOMAIN matchup_odds \cap CoreMarketKeys # {}

\* one team's injury record; keys absent from the record answer None
ProducedKeys == {"tier_1_out", "tier_2_out", "secondary_out",
                 "questionable", "doubtful"}

\* a team record that also carries the two defensive keys, following the
\* star tiers
CtxDefensive(trueKeys) ==
    [k \in ProducedKeys \cup {"def_tier_1_out", "def_tier_2_out"} |->
        \/ k \in trueKeys
        \/ k = "def_tier_1_out" /\ "tier_1_out" \in trueKeys
        \/ k = "def_tier_2_out" /\ "tier_2_out" \in trueKeys]

Ctx(trueKeys) == [k \in ProducedKeys |-> k \in trueKeys]

CtxWith(ctx, key) == [k \in DOMAIN ctx \cup {key} |-> k = key \/ ctx[k]]

\* get_injury_context(): team -> record; {} when the feed does not answer
InjuryMaps ==
    { <<>>,
      [t \in {"DEN", "LAL"} |-> Ctx({})],
      [t \in {"DEN", "LAL"} |->
          IF t = "DEN" THEN Ctx({"questionable"}) ELSE Ctx({})] }

\* ctx.get(key) used as a condition
CtxFlag(ctx, key) == key \in DOMAIN ctx /\ ctx[key]

\* ctx.get(key) rendered in an f-string
CtxStr(ctx, key) ==
    IF key \notin DOMAIN ctx THEN "None"
    ELSE IF ctx[key] THEN "True" ELSE "False"

\* nba_data.lineups_confirmed
lineups_confirmed(game_time_utc, injury_map, home, away, t) ==
    IF game_time_utc = NoTime THEN FALSE
    ELSE IF game_time_utc - t > 30 * TicksPerMinute THEN FALSE
    ELSE LET h == MapGet(injury_map, home, <<>>)
             a == MapGet(injury_map, away, <<>>)
         IN  ~(CtxFlag(h, "questionable") \/ CtxFlag(h, "doubtful")
               \/ CtxFlag(a, "questionable") \/ CtxFlag(a, "doubtful"))


-----------------------------------------------------------------------------
(* Monte-Carlo draws: rng.normal(mean, sd, SIMULATIONS), by their summary *)
(* statistics.  The generator is unseeded and the request's base points   *)
(* are not modelled apart from the draw: the statistics range over values *)
(* a draw of SIMULATIONS reals can take.                                  *)

\* margins: mean (hundredths of a point) and number of draws with margin > 0
SpreadSamples ==
    { [mean |-> 542, wins |-> 33600],
      [mean |-> 547, wins |-> 33650],
      [mean |-> 310, wins |-> 30000],
      [mean |-> 120, wins |-> 27000] }

\* totals: mean (hundredths) and number of draws below the line
GameSamples ==
    { [fair |-> 22500, below |-> 24000],
      [fair |-> 22550, below |-> 21000],
      [fair |-> 22900, below |-> 19000],
      [fair |-> 22850, below |-> 18000],
      [fair |-> 22800, below |-> 17000],
      [fair |-> 22950, below |-> 15000],
      [fair |-> 22200, below |-> 17000],
      [fair |-> 22300, below |-> 16000],
      [fair |-> 22200, below |-> 12500],
      [fair |-> 22000, below |-> 32000],
      [fair |-> 22600, below |-> 32000] }

QuarterSamples ==
    { [fair |-> 5800, below |-> 16000],
      [fair |-> 5650, below |-> 25000] }

\* draws followed when the over price is shorter than evens
ShadedSamples ==
    { [fair |-> 22550, below |-> 21000],
      [fair |-> 22950, below |-> 15000],
      [fair |-> 22000, below |-> 32000] }

TotalsSamples(market, odds) ==
    IF market # "game" THEN QuarterSamples
    ELSE IF odds.over_odds = 200 THEN GameSamples
    ELSE ShadedSamples

-----------------------------------------------------------------------------
(* Per-market computation of run_simulation, before any shared state is read *)

GameId(home, away) == <<home, away>>

\* app.py:579-618, 644-649
\* the spread decision without its gate on the tier
SpreadDecisionAnyTier(gid, sp) ==
    LET fair_spread == RoundHalfEven(0 - sp.mean, 10)
        home_pct == RoundHalfEven(sp.wins * 1000, SIMULATIONS)
        away_pct == RoundHalfEven((SIMULATIONS - sp.wins) * 1000, SIMULATIONS)
        win_pct == Max(home_pct, away_pct)
        tier == win_prob_tier(win_pct)
        gate == IF Abs(fair_spread) < 20 THEN "floor"
                ELSE IF ~allow_spread_bet(win_pct, tier) THEN "filter"
                ELSE "dedup"
    IN  [record |-> [fair_spread |-> fair_spread,
                     home_win_pct |-> home_pct,
                     away_win_pct |-> away_pct],
         gate |-> gate,
         tier |-> tier,
         key |-> <<gid, "spread", fair_spread, tier>>]

SpreadDecision(gid, sp) ==
    LET fair_spread == RoundHalfEven(0 - sp.mean, 10)
        home_pct == RoundHalfEven(sp.wins * 1000, SIMULATIONS)
        away_pct == RoundHalfEven((SIMULATIONS - sp.wins) * 1000, SIMULATIONS)
        win_pct == Max(home_pct, away_pct)
        tier == win_prob_tier(win_pct)
        gate == IF Abs(fair_spread) < 20 THEN "floor"
                ELSE IF tier \notin {"ELITE", "VERY STRONG"} THEN "tier"
                ELSE IF ~allow_spread_bet(win_pct, tier) THEN "filter"
                ELSE "dedup"
    IN  [record |-> [fair_spread |-> fair_spread,
                     home_win_pct |-> home_pct,
                     away_win_pct |-> away_pct],
         gate |-> gate,
         tier |-> tier,
         key |-> <<gid, "spread", fair_spread, tier>>]

\* the moneyline with the two sides of the spread record exchanged
H2HDecisionSwapped(gid, spread) ==
    LET home_pct == spread.away_win_pct
        away_pct == spread.home_win_pct
        fair_home == RoundHalfEven(100000, home_pct)
        fair_away == RoundHalfEven(100000, away_pct)
        pick_pct == Max(home_pct, away_pct)
        pick_odds == IF home_pct > away_pct THEN fair_home ELSE fair_away
        tier == win_prob_tier(pick_pct)
    IN  IF home_pct <= 0 \/ away_pct <= 0
        THEN [gate |-> "noprob"]
        ELSE [record |-> [home_win_pct |-> home_pct,
                          away_win_pct |-> away_pct,
                          fair_home_odds |-> fair_home,
                          fair_away_odds |-> fair_away],
              gate |-> IF allow_h2h_bet(pick_pct, pick_odds, tier)
                       THEN "dedup" ELSE "filter",
              tier |-> tier,
              pick_pct |-> pick_pct,
              pick_odds |-> pick_odds,
              key |-> <<gid, "h2h", pick_pct, tier>>]

\* app.py:678-727; spread is results["spread"]
H2HDecision(gid, spread) ==
    LET home_pct == spread.home_win_pct
        away_pct == spread.away_win_pct
        fair_home == RoundHalfEven(100000, home_pct)
        fair_away == RoundHalfEven(100000, away_pct)
        pick_pct == Max(home_pct, away_pct)
        pick_odds == IF home_pct > away_pct THEN fair_home ELSE fair_away
        tier == win_prob_tier(pick_pct)
    IN  IF home_pct <= 0 \/ away_pct <= 0
        THEN [gate |-> "noprob"]
        ELSE [record |-> [home_win_pct |-> home_pct,
                          away_win_pct |-> away_pct,
                          fair_home_odds |-> fair_home,
                          fair_away_odds |-> fair_away],
              gate |-> IF allow_h2h_bet(pick_pct, pick_odds, tier)
                       THEN "dedup" ELSE "filter",
              tier |-> tier,
              pick_pct |-> pick_pct,
              pick_odds |-> pick_odds,
              key |-> <<gid, "h2h", pick_pct, tier>>]

\* any defensive tier-1 or tier-2 player out on either side (app.py:937-942)
DefensiveOut(home_ctx, away_ctx) ==
    \/ CtxFlag(home_ctx, "def_tier_1_out")
    \/ CtxFlag(away_ctx, "def_tier_1_out")
    \/ CtxFlag(home_ctx, "def_tier_2_out")
    \/ CtxFlag(away_ctx, "def_tier_2_out")

\* the bump without its test of the pick side
DefensiveBumpAnySide(bet_side, tier, home_ctx, away_ctx) ==
    IF tier \in {"LEAN", "STRONG", "VERY STRONG"}
       /\ DefensiveOut(home_ctx, away_ctx)
    THEN CASE tier = "LEAN" -> "STRONG"
           [] tier = "STRONG" -> "VERY STRONG"
           [] tier = "VERY STRONG" -> "ELITE"
    ELSE tier

\* app.py:936-947
DefensiveBump(bet_side, tier, home_ctx, away_ctx) ==
    IF bet_side = "OVER" /\ tier \in {"LEAN", "STRONG", "VERY STRONG"}
       /\ DefensiveOut(home_ctx, away_ctx)
    THEN CASE tier = "LEAN" -> "STRONG"
           [] tier = "STRONG" -> "VERY STRONG"
           [] tier = "VERY STRONG" -> "ELITE"
    ELSE tier

\* app.py:831-839
TrapWarning(bet_side, market_line, fair) ==
    \/ bet_side = "OVER" /\ market_line > fair + 100
    \/ bet_side = "UNDER" /\ market_line < fair - 100

\* app.py:996-1005
InjurySignature(home_ctx, away_ctx) ==
    << CtxStr(home_ctx, "tier_1_out"), CtxStr(home_ctx, "tier_2_out"),
       CtxStr(away_ctx, "tier_1_out"), CtxStr(away_ctx, "tier_2_out"),
       CtxStr(home_ctx, "def_tier_1_out"), CtxStr(home_ctx, "def_tier_2_out"),
       CtxStr(away_ctx, "def_tier_1_out"), CtxStr(away_ctx, "def_tier_2_out") >>

\* app.py:1008
TotalsKey(gid, market, market_line, bet_stage, signature) ==
    <<gid, market, market_line, bet_stage, signature, "PREGAME">>

\* app.py:872
DailyKey(gid, market, market_line, tier) ==
    <<"DAILY", gid, market, market_line, tier>>

\* TotalsDecision with the tier in the stage component of the key
TotalsDecisionKeyedByTier(gid, market, odds, smp, home_ctx, away_ctx, confirmed) ==
    LET market_line == odds.line
        market_odds == odds.over_odds
        fair == smp.fair
        raw_over == (SIMULATIONS - smp.below) * (PPM \div SIMULATIONS)
        cal_over == calibrate_prob(raw_over)
        over_prob == cal_over
        under_prob == PPM - cal_over
        bet_side == IF over_prob > under_prob THEN "OVER" ELSE "UNDER"
        \* with no price implied_prob raises and no edge is computed
        edge == IF market_odds = NoPrice THEN 0
                ELSE cap_edge(cal_over - implied_prob(market_odds))
        edge_pct_display == RoundHalfEven(Abs(edge), 100)
        trap_warning == TrapWarning(bet_side, market_line, fair)
        pct == percentile_position(smp.below)
        tier == confidence_tier(confidence_score(edge, fair, market_line, pct))
        signal == lean_signal(edge, pct)
        bumped == DefensiveBump(bet_side, tier, home_ctx, away_ctx)
        bet_stage == IF confirmed THEN "CONFIRMED" ELSE "EARLY"
        gate == IF Abs(over_prob - 500000) < 45000 THEN "coinflip"
                ELSE IF market_odds = NoPrice THEN "raise"
                ELSE IF edge_pct_display < 200 THEN "edgefloor"
                ELSE IF trap_warning /\ tier # "ELITE" THEN "trap"
                ELSE "dedup"
    IN  [gate |-> gate,
         bet_side |-> bet_side,
         edge |-> edge,
         edge_pct_display |-> edge_pct_display,
         trap_warning |-> trap_warning,
         scored |-> tier,
         tier |-> bumped,
         bet_stage |-> bet_stage,
         record |-> [line |-> market_line,
                     fair |-> fair,
                     edge |-> RoundHalfEven(edge, 100),
                     pct |-> pct,
                     tier |-> bumped,
                     signal |-> signal],
         daily_key |-> DailyKey(gid, market, market_line, tier),
         key |-> TotalsKey(gid, market, market_line, tier,
                           InjurySignature(home_ctx, away_ctx))]

\* app.py:770-856, 898-905, 936-1008: one totals market with a posted line
TotalsDecision(gid, market, odds, smp, home_ctx, away_ctx, confirmed) ==
    LET market_line == odds.line
        market_odds == odds.over_odds
        fair == smp.fair
        raw_over == (SIMULATIONS - smp.below) * (PPM \div SIMULATIONS)
        cal_over == calibrate_prob(raw_over)
        over_prob == cal_over
        under_prob == PPM - cal_over
        bet_side == IF over_prob > under_prob THEN "OVER" ELSE "UNDER"
        \* with no price implied_prob raises and no edge is computed
        edge == IF market_odds = NoPrice THEN 0
                ELSE cap_edge(cal_over - implied_prob(market_odds))
        edge_pct_display == RoundHalfEven(Abs(edge), 100)
        trap_warning == TrapWarning(bet_side, market_line, fair)
        pct == percentile_position(smp.below)
        tier == confidence_tier(confidence_score(edge, fair, market_line, pct))
        signal == lean_signal(edge, pct)
        bumped == DefensiveBump(bet_side, tier, home_ctx, away_ctx)
        bet_stage == IF confirmed THEN "CONFIRMED" ELSE "EARLY"
        gate == IF Abs(over_prob - 500000) < 45000 THEN "coinflip"
                ELSE IF market_odds = NoPrice THEN "raise"
                ELSE IF edge_pct_display < 200 THEN "edgefloor"
                ELSE IF trap_warning /\ tier # "ELITE" THEN "trap"
                ELSE "dedup"
    IN  [gate |-> gate,
         bet_side |-> bet_side,
         edge |-> edge,
         edge_pct_display |-> edge_pct_display,
         trap_warning |-> trap_warning,
         scored |-> tier,
         tier |-> bumped,
         bet_stage |-> bet_stage,
         record |-> [line |-> market_line,
                     fair |-> fair,
                     edge |-> RoundHalfEven(edge, 100),
                     pct |-> pct,
                     tier |-> bumped,
                     signal |-> signal],
         daily_key |-> DailyKey(gid, market, market_line, tier),
         key |-> TotalsKey(gid, market, market_line, bet_stage,
                           InjurySignature(home_ctx, away_ctx))]


-----------------------------------------------------------------------------
(* run_simulation (app.py:272-1093) *)

NoMessage == [kind |-> "None"]

Unbound == [kind |-> "unbound"]

ReturnNone == [kind |-> "None"]

Raised == [kind |-> "raise"]

Result(gid, markets) == [kind |-> "result", game |-> gid, markets |-> markets]

\* the reset without its test of the date
reset_alerts_every_call(t, S) ==
    [S EXCEPT !.sent = {}, !.daily = {}, !.day = DateOf(t)]

\* the reset emptying the pending entries as well
reset_alerts_and_pending(t, S) ==
    IF DateOf(t) # S.day
    THEN [S EXCEPT !.sent = {}, !.daily = {}, !.pre = <<>>, !.day = DateOf(t)]
    ELSE S

\* reset_alerts_if_new_day (app.py:125-132), on the alert state as a record
reset_alerts_if_new_day(t, S) ==
    IF DateOf(t) # S.day
    THEN [S EXCEPT !.sent = {}, !.daily = {}, !.day = DateOf(t)]
    ELSE S

\* the gate with its first window reaching 45 minutes
InDecisionWindowWide(d) ==
    \/ 15 * TicksPerMinute <= d /\ d <= 45 * TicksPerMinute
    \/ 9 * TicksPerMinute <= d /\ d <= 11 * TicksPerMinute
    \/ 1 * TicksPerMinute <= d /\ d <= 3 * TicksPerMinute
    \/ (0 - 2) * TicksPerMinute <= d /\ d <= 0

\* app.py:338-343; d = game_time - now in half-minutes
InDecisionWindow(d) ==
    \/ 15 * TicksPerMinute <= d /\ d <= 30 * TicksPerMinute
    \/ 9 * TicksPerMinute <= d /\ d <= 11 * TicksPerMinute
    \/ 1 * TicksPerMinute <= d /\ d <= 3 * TicksPerMinute
    \/ (0 - 2) * TicksPerMinute <= d /\ d <= 0

\* app.py:315 and app.py:1084
PregameKey(gid, label) == <<gid, label, "PREGAME">>

\* app.py:314-325
Prequeue(pre, gid, req, home, away, d) ==
    IF 1 * TicksPerMinute <= d /\ d <= 15 * TicksPerMinute
       /\ PregameKey(gid, "GAME") \notin DOMAIN pre
    THEN [k \in DOMAIN pre \cup {PregameKey(gid, "GAME")} |->
            IF k \in DOMAIN pre THEN pre[k]
            ELSE [game_time |-> req.game_time, message |-> NoMessage,
                  home_abbr |-> home, away_abbr |-> away,
                  sent_10 |-> FALSE, sent_5 |-> FALSE]]
    ELSE pre

\* results[market] = record
Put(f, k, v) == [x \in DOMAIN f \cup {k} |-> IF x = k THEN v ELSE f[x]]

\* app.py:525-535, tenths (pace) and hundredths (variance)
PaceAdjust(home_ctx, away_ctx) ==
    (IF CtxFlag(home_ctx, "tier_1_out") THEN 15 ELSE 0)
    + (IF CtxFlag(home_ctx, "tier_2_out") THEN 0 - 10 ELSE 0)
    + (IF CtxFlag(away_ctx, "tier_1_out") THEN 15 ELSE 0)
    + (IF CtxFlag(away_ctx, "tier_2_out") THEN 0 - 10 ELSE 0)

VarianceAdjust(home_ctx, away_ctx) ==
    (IF CtxFlag(home_ctx, "tier_1_out") THEN 80 ELSE 0)
    + (IF CtxFlag(home_ctx, "tier_2_out") THEN 20 ELSE 0)
    + (IF CtxFlag(away_ctx, "tier_1_out") THEN 80 ELSE 0)
    + (IF CtxFlag(away_ctx, "tier_2_out") THEN 20 ELSE 0)

\* app.py:649-673: the spread market, on the locals st of the evaluation
SpreadApply(d, st) ==
    LET st1 == [st EXCEPT !.results = Put(@, "spread", d.record)]
    IN  IF d.gate # "dedup"
        THEN [st1 EXCEPT !.trace["spread"] = d.gate]
        ELSE IF d.key \in st.sent
        THEN [st1 EXCEPT !.trace["spread"] = "duplicate"]
        ELSE [st1 EXCEPT !.trace["spread"] = "cleared",
                         !.sent = @ \cup {d.key},
                         !.out = Append(@, [kind |-> "spread",
                                            market |-> "spread",
                                            tier |-> d.tier,
                                            key |-> d.key])]

SpreadStep(st, env) ==
    Only({SpreadApply(d, st) : d \in {SpreadDecision(env.gid, env.sp)}})

\* app.py:678-749: the moneyline market
H2HApply(d, st) ==
    LET st0 == st
    IN  IF d.gate = "noprob"
        THEN [st0 EXCEPT !.trace["h2h"] = "noprob"]
        ELSE LET st1 == [st0 EXCEPT !.results = Put(@, "h2h", d.record)]
             IN  IF d.gate # "dedup"
                 THEN [st1 EXCEPT !.trace["h2h"] = d.gate]
                 ELSE IF d.key \in st.sent
                 THEN [st1 EXCEPT !.trace["h2h"] = "duplicate"]
                 ELSE [st1 EXCEPT !.trace["h2h"] = "cleared",
                                  !.sent = @ \cup {d.key},
                                  !.out = Append(@, [kind |-> "h2h",
                                                     market |-> "h2h",
                                                     tier |-> d.tier,
                                                     key |-> d.key])]

H2HStep(st, env) ==
    Only({H2HApply(d, st) :
            d \in {H2HDecision(env.gid, st.results["spread"])}})

\* app.py:871-892: the daily-scan alert of one totals market
DailyStep(market, d, st, env) ==
    IF ~(env.ign /\ d.scored \in {"ELITE", "VERY STRONG"}) THEN st
    ELSE LET fresh == d.daily_key \notin st.daily
             msg == IF fresh
                    THEN [kind |-> "daily", market |-> market,
                          tier |-> d.scored, key |-> d.daily_key,
                          injuries |-> 0]
                    ELSE st.daily_message
             st1 == [st EXCEPT !.daily = @ \cup {d.daily_key},
                               !.daily_message = msg]
         IN  IF ~env.showInj THEN st1
             ELSE IF msg = Unbound THEN [st1 EXCEPT !.raised = TRUE]
             ELSE LET sentMsg == [msg EXCEPT !.injuries = @ + 1]
                  IN  [st1 EXCEPT !.daily_message = sentMsg,
                                  !.out = Append(@, sentMsg)]

\* app.py:1064-1086: the rendered message, attached to a pending entry
AttachMessage(pre, gid, market, d) ==
    LET k == PregameKey(gid, market)
    IN  IF k \in DOMAIN pre /\ pre[k].message = NoMessage
        THEN [pre EXCEPT ![k].message =
                 [kind |-> "totals", market |-> market, tier |-> d.tier,
                  key |-> d.key]]
        ELSE pre

\* the totals market recording its result only once it has cleared
TotalsFinishCleared(market, d, st1, env) ==
    IF st1.raised THEN [st1 EXCEPT !.trace[market] = "raise"]
    ELSE IF d.gate = "trap"
    THEN [st1 EXCEPT !.trace[market] = "trap"]
    ELSE
    LET rec == [line |-> d.record.line, fair |-> d.record.fair,
                edge |-> d.record.edge, pct |-> d.record.pct,
                tier |-> d.record.tier, signal |-> d.record.signal,
                pace_adjust |-> PaceAdjust(env.home_ctx, env.away_ctx),
                variance_adjust |->
                    VarianceAdjust(env.home_ctx, env.away_ctx)]
    IN  IF d.key \in st1.sent
        THEN [st1 EXCEPT !.trace[market] = "duplicate"]
        ELSE [st1 EXCEPT !.results = Put(@, market, rec),
                         !.trace[market] = "cleared",
                         !.sent = @ \cup {d.key},
                         !.pre = AttachMessage(@, env.gid, market, d)]

\* app.py:898-1086: a totals market after the daily-scan step
TotalsFinish(market, d, st1, env) ==
    IF st1.raised THEN [st1 EXCEPT !.trace[market] = "raise"]
    ELSE IF d.gate = "trap"
    THEN [st1 EXCEPT !.trace[market] = "trap"]
    ELSE
    LET rec == [line |-> d.record.line, fair |-> d.record.fair,
                edge |-> d.record.edge, pct |-> d.record.pct,
                tier |-> d.record.tier, signal |-> d.record.signal,
                pace_adjust |-> PaceAdjust(env.home_ctx, env.away_ctx),
                variance_adjust |->
                    VarianceAdjust(env.home_ctx, env.away_ctx)]
    IN  IF d.key \in st1.sent
        THEN [st1 EXCEPT !.results = Put(@, market, rec),
                         !.trace[market] = "duplicate"]
        ELSE [st1 EXCEPT !.results = Put(@, market, rec),
                         !.trace[market] = "cleared",
                         !.sent = @ \cup {d.key},
                         !.pre = AttachMessage(@, env.gid, market, d)]

\* app.py:770-1086: a totals market with a posted line, d its computation
TotalsApply(market, d, st, env) ==
    LET st0 == [st EXCEPT !.locals = Put(@, market,
                                  [bet_side |-> d.bet_side,
                                   edge |-> d.edge,
                                   trap_warning |-> d.trap_warning,
                                   tier |-> d.scored,
                                   bet_stage |-> d.bet_stage,
                                   key |-> d.key])]
    IN  IF d.gate \in {"coinflip", "edgefloor"}
        THEN [st0 EXCEPT !.trace[market] = d.gate]
        ELSE IF d.gate = "raise"
        THEN [st0 EXCEPT !.trace[market] = "raise", !.raised = TRUE]
        ELSE Only({TotalsFinish(market, d, st1, env) :
                     st1 \in {DailyStep(market, d, st0, env)}})

\* app.py:753-1086: one totals market
TotalsStep(market, st, env) ==
    IF OddsKeyOf(market) \notin DOMAIN env.matchup_odds
    THEN [st EXCEPT !.trace[market] = "unavailable"]
    ELSE Only({TotalsApply(market, d, st, env) :
                 d \in {TotalsDecision(env.gid, market,
                            env.matchup_odds[OddsKeyOf(market)],
                            env.ts[market], env.home_ctx, env.away_ctx,
                            env.confirmed)}})

MarketStep(market, st, env) ==
    IF market = "spread" THEN SpreadStep(st, env)
    ELSE IF market = "h2h" THEN H2HStep(st, env)
    ELSE TotalsStep(market, st, env)

RECURSIVE MarketLoop(_, _, _)
\* for market, cfg in MARKET_CONFIG.items()
MarketLoop(i, st, env) ==
    IF i > Len(MarketOrder) \/ st.raised THEN st
    ELSE Only({MarketLoop(i + 1, next, env) :
                 next \in {MarketStep(MarketOrder[i], st, env)}})

NoTrace == [m \in {MarketOrder[i] : i \in 1..Len(MarketOrder)} |-> "unreached"]

\* what an evaluation leaves behind: the alert state S, the value returned,
\* the alerts handed to send_telegram_alert, and how each market ended
Outcome(path, ret, S, out, trace, locals) ==
    [path |-> path, ret |-> ret, S |-> S, out |-> out, trace |-> trace,
     locals |-> locals]

\* app.py:579-1093: the markets of a fixture that reached them
RunMarkets(gid, S1, st) ==
    LET S2 == [S1 EXCEPT !.sent = st.sent, !.daily = st.daily,
                         !.pre = st.pre]
    IN  IF st.raised
        THEN Outcome("raised", Raised, S2, st.out, st.trace, st.locals)
        ELSE Outcome("evaluated", Result(gid, st.results), S2, st.out,
                     st.trace, st.locals)

\* run_simulation(req, ignore_time_window=ign) at time t on alert state S,
\* given what the feeds answer, what the generator draws and what
\* lineups_confirmed answers (app.py:979-988)
run_simulation_given(req, ign, t, S, showInj, odds_map, injury_map, sp, ts, confirmed) ==
    LET S0 == reset_alerts_if_new_day(t, S)
        home == team_name_to_abbr(req.team_a)
        away == team_name_to_abbr(req.team_b)
        gid == GameId(home, away)
        d == req.game_time - t
        S1 == [S0 EXCEPT !.pre = Prequeue(@, gid, req, home, away, d)]
        matchup_odds == MatchupOdds(odds_map, home, away)
        env == [gid |-> gid, ign |-> ign, showInj |-> showInj,
                matchup_odds |-> matchup_odds,
                home_ctx |-> MapGet(injury_map, home, <<>>),
                away_ctx |-> MapGet(injury_map, away, <<>>),
                confirmed |-> confirmed,
                sp |-> sp, ts |-> ts]
    IN  IF home = None \/ away = None
        THEN Outcome("unresolved", ReturnNone, S0, <<>>, NoTrace, <<>>)
        ELSE IF req.game_time = NoTime
        THEN Outcome("no_game_time", Result(gid, <<>>), S0, <<>>, NoTrace, <<>>)
        ELSE IF ~ign /\ ~InDecisionWindow(d)
        THEN Outcome("window", Result(gid, <<>>), S1, <<>>, NoTrace, <<>>)
        ELSE IF ~Truthy(matchup_odds)
        THEN Outcome("no_odds", Result(gid, <<>>), S1, <<>>, NoTrace, <<>>)
        ELSE IF ~has_core_market(matchup_odds)
        THEN Outcome("no_core_market", ReturnNone, S1, <<>>, NoTrace, <<>>)
        ELSE Only({RunMarkets(gid, S1, st) :
                     st \in {MarketLoop(1,
                         [results |-> <<>>, sent |-> S1.sent,
                          daily |-> S1.daily, pre |-> S1.pre, out |-> <<>>,
                          daily_message |-> Unbound, raised |-> FALSE,
                          trace |-> NoTrace, locals |-> <<>>],
                         env)}})

\* run_simulation(req, ignore_time_window=ign) at time t on alert state S,
\* given what the feeds answer and what the generator draws
run_simulation(req, ign, t, S, showInj, odds_map, injury_map, sp, ts) ==
    run_simulation_given(req, ign, t, S, showInj, odds_map, injury_map, sp,
        ts, lineups_confirmed(req.game_time, injury_map,
                              team_name_to_abbr(req.team_a),
                              team_name_to_abbr(req.team_b), t))


-----------------------------------------------------------------------------
(* The process: callers of run_simulation, and the clock *)

MaxCalls == 2

NoCall == [op |-> "none"]

\* the process-wide alert state, as the record run_simulation works on
AlertState ==
    [sent |-> SENT_ALERTS, daily |-> DAILY_SENT_ALERTS,
     pre |-> PREGAME_ALERTS, day |-> ALERT_DAY]

\* the fixtures build_model_inputs() reports: names resolve, game time set
ScoreboardRequests ==
    {r \in Requests : /\ team_name_to_abbr(r.team_a) # None
                      /\ team_name_to_abbr(r.team_b) # None
                      /\ r.game_time # NoTime}

\* does run_simulation(req, ign) at time t get as far as the odds feed
ReachesOdds(req, ign, t) ==
    /\ team_name_to_abbr(req.team_a) # None
    /\ team_name_to_abbr(req.team_b) # None
    /\ req.game_time # NoTime
    /\ (ign \/ InDecisionWindow(req.game_time - t))

\* does it get as far as the market loop
ReachesMarkets(req, ign, t, odds_map) ==
    /\ ReachesOdds(req, ign, t)
    /\ has_core_market(MatchupOdds(odds_map, team_name_to_abbr(req.team_a),
                                   team_name_to_abbr(req.team_b)))

\* the draws of the margin sample an evaluation is followed through: with
\* the spread posted, two draws one sampling error apart; otherwise one draw
SpreadDraws(matchup_odds) ==
    IF "spreads" \in DOMAIN matchup_odds
    THEN {[mean |-> 542, wins |-> 33600], [mean |-> 547, wins |-> 33650]}
    ELSE {[mean |-> 120, wins |-> 27000]}

\* the answers of the injury feed an evaluation is followed through: all of
\* them when a totals line is posted (the fingerprint reads them), one
\* otherwise
InjuryDraws(matchup_odds) ==
    IF \E m \in TotalsMarkets : OddsKeyOf(m) \in DOMAIN matchup_odds
    THEN InjuryMaps
    ELSE {[t \in {"DEN", "LAL"} |-> Ctx({})]}

\* the totals markets whose line is posted, each with a draw
TotalsDraws(matchup_odds) ==
    LET posted == {m \in TotalsMarkets : OddsKeyOf(m) \in DOMAIN matchup_odds}
    IN  {f \in [posted -> GameSamples \cup ShadedSamples \cup QuarterSamples] :
            \A m \in posted :
                f[m] \in TotalsSamples(m, matchup_odds[OddsKeyOf(m)])}

\* send_telegram_alert(message): the alert, with the call that sent it
Delivery(n, msg, day, req, ign, odds_map, injury_map) ==
    [n |-> n, kind |-> msg.kind, market |-> msg.market, key |-> msg.key,
     day |-> day, req |-> req, ign |-> ign, odds_map |-> odds_map,
     injury_map |-> injury_map]

\* one call of run_simulation by `caller`, given what the feeds answer and
\* what the generator draws
EvaluateFed(caller, req, ign, odds_map, injury_map, sp, ts) ==
    \E o \in {run_simulation(req, ign, now, AlertState,
                            SHOW_INJURIES_IN_DAILY, odds_map,
                            injury_map, sp, ts)} :
        /\ SENT_ALERTS' = o.S.sent
        /\ DAILY_SENT_ALERTS' = o.S.daily
        /\ PREGAME_ALERTS' = o.S.pre
        /\ ALERT_DAY' = o.S.day
        /\ call' = [op |-> "run_simulation", caller |-> caller,
                    showInj |-> SHOW_INJURIES_IN_DAILY,
                    req |-> req, ign |-> ign, at |-> now,
                    injury_map |-> injury_map,
                    before |-> AlertState,
                    path |-> o.path, ret |-> o.ret, out |-> o.out,
                    trace |-> o.trace, locals |-> o.locals]
        /\ calls' = calls + 1
        /\ delivered' = delivered \cup
              {Delivery(calls + 1, o.out[i], o.S.day, req, ign, odds_map,
                        injury_map) : i \in DOMAIN o.out}

\* one call of run_simulation by `caller`, with every answer of the feeds
\* and every draw of the generator the call can meet
Evaluate(caller, req, ign) ==
    \E odds_map \in (IF ReachesOdds(req, ign, now) THEN OddsMaps ELSE {<<>>}) :
      LET reaches == ReachesMarkets(req, ign, now, odds_map)
          mo == IF reaches
                THEN MatchupOdds(odds_map, team_name_to_abbr(req.team_a),
                                 team_name_to_abbr(req.team_b))
                ELSE <<>>
      IN
      \E injury_map \in (IF reaches THEN InjuryDraws(mo) ELSE {<<>>}),
         sp \in SpreadDraws(mo),
         ts \in TotalsDraws(mo) :
        EvaluateFed(caller, req, ign, odds_map, injury_map, sp, ts)

Init ==
    /\ now = TipOff - 40 * TicksPerMinute
    /\ ALERT_DAY = DateOf(now)
    /\ SENT_ALERTS = {}
    /\ DAILY_SENT_ALERTS = {}
    /\ PREGAME_ALERTS = <<>>
    /\ SHOW_INJURIES_IN_DAILY \in BOOLEAN
    /\ last_run_date = NoTime
    /\ call = NoCall
    /\ calls = 0
    /\ delivered = {}
    /\ tpc = <<>>
    /\ tloc = <<>>

\* POST /simulate (app.py:1100-1103)
Simulate ==
    /\ call = NoCall
    /\ calls < MaxCalls
    /\ \E req \in Requests : Evaluate("simulate", req, FALSE)
    /\ UNCHANGED <<now, SHOW_INJURIES_IN_DAILY, last_run_date, tpc, tloc>>

\* AUTO_RUN_TIME = "21:50" (app.py:1176), as a time of day
AutoRunTime == (21 * 60 + 50) * TicksPerMinute

\* should_run (app.py:1191)
should_run(t, last) == t % TicksPerDay >= AutoRunTime /\ last # DateOf(t)

\* one sweep of daily_auto_run over a one-game scoreboard (app.py:1183-1255)
DailyAutoRun ==
    /\ call = NoCall
    /\ calls < MaxCalls
    /\ should_run(now, last_run_date)
    /\ \E req \in ScoreboardRequests : Evaluate("daily", req, TRUE)
    /\ last_run_date' = IF call'.path = "raised" THEN last_run_date
                        ELSE DateOf(now)
    /\ UNCHANGED <<now, SHOW_INJURIES_IN_DAILY, tpc, tloc>>

\* the entry of a pass that sends without setting sent_5
SchedulerEntryUnmarked(key, alert, t) ==
    IF ~alert.sent_5 /\ t >= alert.game_time - 10 * TicksPerMinute
    THEN IF alert.message = NoMessage
         THEN [alert |-> alert, send |-> {}]
         ELSE [alert |-> alert,
               send |-> {[kind |-> "5min", market |-> alert.message.market,
                          key |-> key]}]
    ELSE [alert |-> alert, send |-> {}]

\* the entry of a pass without the `continue` on an unset message: the
\* message is dereferenced, which raises when it is None
SchedulerEntryNoSkip(key, alert, t) ==
    IF ~alert.sent_5 /\ t >= alert.game_time - 10 * TicksPerMinute
    THEN IF alert.message = NoMessage
         THEN [alert |-> alert, send |-> {}, raised |-> TRUE]
         ELSE [alert |-> [alert EXCEPT !.sent_5 = TRUE],
               send |-> {[kind |-> "5min", market |-> alert.message.market,
                          key |-> key]},
               raised |-> FALSE]
    ELSE [alert |-> alert, send |-> {}, raised |-> FALSE]

\* app.py:1117-1138: one entry of PREGAME_ALERTS in one pass of the
\* scheduler at time t: the 5-minute branch (1120-1134), then the failsafe
\* branch (1137-1139) on the entry as the first branch left it.  `send` is
\* what it hands to send_telegram_alert; `raised` says that the failsafe
\* concatenated a None message
SchedulerEntry(key, alert, t) ==
    IF /\ ~alert.sent_5 /\ t >= alert.game_time - 10 * TicksPerMinute
       /\ alert.message = NoMessage
    THEN [alert |-> alert, send |-> {}, raised |-> FALSE]
    ELSE
      LET first == ~alert.sent_5
                      /\ t >= alert.game_time - 10 * TicksPerMinute
          a1 == IF first THEN [alert EXCEPT !.sent_5 = TRUE] ELSE alert
          s1 == IF first
                THEN {[kind |-> "5min", market |-> alert.message.market,
                       key |-> key]}
                ELSE {}
      IN  IF ~a1.sent_5 /\ t >= a1.game_time
          THEN IF a1.message = NoMessage
               THEN [alert |-> a1, send |-> s1, raised |-> TRUE]
               ELSE [alert |-> [a1 EXCEPT !.sent_5 = TRUE],
                     send |-> s1 \cup
                        {[kind |-> "late", market |-> a1.message.market,
                          key |-> key]},
                     raised |-> FALSE]
          ELSE [alert |-> a1, send |-> s1, raised |-> FALSE]

\* one pass of pregame_alert_scheduler over PREGAME_ALERTS (app.py:1111-1140);
\* the injury feed is asked only for an entry that is sent (app.py:1122-1127);
\* an alert the pass sends is logged with the time of the pass as its number
PregameAlertScheduler ==
    /\ call = NoCall
    /\ \E injury_map \in (IF \E k \in DOMAIN PREGAME_ALERTS :
                                 SchedulerEntry(k, PREGAME_ALERTS[k],
                                                now).send # {}
                            THEN InjuryMaps ELSE {<<>>}) :
         /\ PREGAME_ALERTS' =
               [k \in DOMAIN PREGAME_ALERTS |->
                   SchedulerEntry(k, PREGAME_ALERTS[k], now).alert]
         /\ delivered' = delivered \cup
               { Delivery(now, m, ALERT_DAY,
                          SimulationRequest(PREGAME_ALERTS[k].home_abbr,
                                            PREGAME_ALERTS[k].away_abbr,
                                            PREGAME_ALERTS[k].game_time),
                          FALSE, <<>>, injury_map) :
                   <<k, m>> \in
                       UNION { {<<j, x>> :
                                  x \in SchedulerEntry(j, PREGAME_ALERTS[j],
                                                       now).send} :
                               j \in DOMAIN PREGAME_ALERTS } }
    /\ UNCHANGED <<now, ALERT_DAY, SENT_ALERTS, DAILY_SENT_ALERTS,
                   SHOW_INJURIES_IN_DAILY, last_run_date, call, calls,
                   tpc, tloc>>

\* the awaiting caller resumes with the value returned
Resume ==
    /\ call # NoCall
    /\ call' = NoCall
    /\ UNCHANGED <<now, ALERT_DAY, SENT_ALERTS, DAILY_SENT_ALERTS,
                   PREGAME_ALERTS, SHOW_INJURIES_IN_DAILY, last_run_date,
                   calls, delivered, tpc, tloc>>

\* time passes
Advance ==
    /\ call = NoCall
    /\ \E t \in Instants : t > now /\ now' = t
    /\ UNCHANGED <<ALERT_DAY, SENT_ALERTS, DAILY_SENT_ALERTS, PREGAME_ALERTS,
                   SHOW_INJURIES_IN_DAILY, last_run_date, call, calls,
                   delivered, tpc, tloc>>

Next == Simulate \/ DailyAutoRun \/ PregameAlertScheduler \/ Resume \/ Advance

Spec == Init /\ [][Next]_vars

-----------------------------------------------------------------------------
(* Worker threads.  simulate, daily_auto_run and live_game_monitor each     *)
(* await anyio.to_thread.run_sync(run_simulation, ...): the evaluation runs *)
(* in a worker thread while the event loop goes on serving the other tasks. *)
(* An evaluation is followed here through its reads and writes of           *)
(* SENT_ALERTS in the spread and moneyline markets, one access per step.    *)

Dispatchers == {"simulate", "daily", "live"}

MaxDispatch == 2

\* the fixture and the payload the threads evaluate: spread and moneyline
ThreadRequest == SimulationRequest("Denver Nuggets", "Lakers", TipOff)

ThreadOdds ==
    [k \in {<<"DEN", "LAL">>} |->
        [m \in {"spreads", "h2h"} |-> OddsEntry(-550, 191)]]

ThreadInjuries == [t \in {"DEN", "LAL"} |-> Ctx({})]

ThreadGameId == GameId("DEN", "LAL")

\* ignore_time_window of each dispatcher (app.py:1103, 1243, 1275)
IgnoresWindow(t) == t = "daily"

\* the decision of the market thread t is at
ThreadDecision(t) ==
    IF tloc[t].market = "spread"
    THEN SpreadDecision(ThreadGameId, tloc[t].sp)
    ELSE H2HDecision(ThreadGameId,
                     SpreadDecision(ThreadGameId, tloc[t].sp).record)

\* the market after this one, for the posted payload: spread, then h2h
NextMarket(t) ==
    IF tloc[t].market = "spread"
    THEN /\ tpc' = [tpc EXCEPT ![t] = "test"]
         /\ tloc' = [tloc EXCEPT ![t].market = "h2h"]
    ELSE /\ tpc' = [tpc EXCEPT ![t] = "return"]
         /\ UNCHANGED tloc

InitThreads ==
    /\ now = TipOff - 20 * TicksPerMinute
    /\ ALERT_DAY = DateOf(now)
    /\ SENT_ALERTS = {}
    /\ DAILY_SENT_ALERTS = {}
    /\ PREGAME_ALERTS = <<>>
    /\ SHOW_INJURIES_IN_DAILY \in BOOLEAN
    /\ last_run_date = NoTime
    /\ call = NoCall
    /\ calls = 0
    /\ delivered = {}
    /\ tpc = [t \in Dispatchers |-> "idle"]
    /\ tloc = [t \in Dispatchers |-> [n |-> 0, market |-> "spread",
                                      sp |-> [mean |-> 0, wins |-> 0]]]

\* app.py:272-579: the thread starts; everything up to the market loop
TDispatch(t) ==
    /\ tpc[t] = "idle"
    /\ calls < MaxDispatch
    /\ t = "daily" => should_run(now, last_run_date)
    /\ IgnoresWindow(t) \/ InDecisionWindow(ThreadRequest.game_time - now)
    /\ \E S0 \in {reset_alerts_if_new_day(now, AlertState)} :
         /\ SENT_ALERTS' = S0.sent
         /\ DAILY_SENT_ALERTS' = S0.daily
         /\ ALERT_DAY' = S0.day
         /\ PREGAME_ALERTS' = Prequeue(S0.pre, ThreadGameId, ThreadRequest,
                                       "DEN", "LAL",
                                       ThreadRequest.game_time - now)
    /\ \E sp \in SpreadSamples :
         tloc' = [tloc EXCEPT ![t] = [n |-> calls + 1, market |-> "spread",
                                      sp |-> sp]]
    /\ tpc' = [tpc EXCEPT ![t] = "test"]
    /\ calls' = calls + 1
    /\ UNCHANGED <<now, SHOW_INJURIES_IN_DAILY, last_run_date, call, delivered>>

\* app.py:651 and app.py:729: if key not in SENT_ALERTS
TTest(t) ==
    /\ tpc[t] = "test"
    /\ IF ThreadDecision(t).gate = "dedup"
          /\ ThreadDecision(t).key \notin SENT_ALERTS
       THEN /\ tpc' = [tpc EXCEPT ![t] = "add"]
            /\ UNCHANGED tloc
       ELSE NextMarket(t)
    /\ UNCHANGED <<now, ALERT_DAY, SENT_ALERTS, DAILY_SENT_ALERTS,
                   PREGAME_ALERTS, SHOW_INJURIES_IN_DAILY, last_run_date,
                   call, calls, delivered>>

\* app.py:652 and app.py:730: SENT_ALERTS.add(key)
TAdd(t) ==
    /\ tpc[t] = "add"
    /\ SENT_ALERTS' = SENT_ALERTS \cup {ThreadDecision(t).key}
    /\ tpc' = [tpc EXCEPT ![t] = "send"]
    /\ UNCHANGED <<now, ALERT_DAY, DAILY_SENT_ALERTS, PREGAME_ALERTS,
                   SHOW_INJURIES_IN_DAILY, last_run_date, call, calls,
                   delivered, tloc>>

\* app.py:667-671 and app.py:743-747: send_telegram_alert(message)
TSend(t) ==
    /\ tpc[t] = "send"
    /\ delivered' = delivered \cup
          {Delivery(tloc[t].n,
                    [kind |-> tloc[t].market, market |-> tloc[t].market,
                     key |-> ThreadDecision(t).key],
                    ALERT_DAY, ThreadRequest, IgnoresWindow(t), ThreadOdds,
                    ThreadInjuries)}
    /\ NextMarket(t)
    /\ UNCHANGED <<now, ALERT_DAY, SENT_ALERTS, DAILY_SENT_ALERTS,
                   PREGAME_ALERTS, SHOW_INJURIES_IN_DAILY, last_run_date,
                   call, calls>>

\* app.py:1093: the evaluation returns and its dispatcher resumes
TReturn(t) ==
    /\ tpc[t] = "return"
    /\ tpc' = [tpc EXCEPT ![t] = "idle"]
    /\ last_run_date' = IF t = "daily" THEN DateOf(now) ELSE last_run_date
    /\ UNCHANGED <<now, ALERT_DAY, SENT_ALERTS, DAILY_SENT_ALERTS,
                   PREGAME_ALERTS, SHOW_INJURIES_IN_DAILY, call, calls,
                   delivered, tloc>>

NextThreads ==
    \E t \in Dispatchers :
        TDispatch(t) \/ TTest(t) \/ TAdd(t) \/ TSend(t) \/ TReturn(t)

SpecThreads == InitThreads /\ [][NextThreads]_vars

-----------------------------------------------------------------------------
(* The computation of one totals market (app.py:770-1008) as a function of *)
(* the posted line and price, the draw, and the two injury records it      *)
(* reads with dict.get.                                                    *)

\* injury records as run_simulation may be handed them, the keys it reads
\* with .get("def_tier_1_out") and .get("def_tier_2_out") included
Contexts ==
    { <<>>,
      Ctx({}),
      Ctx({"tier_1_out"}),
      CtxWith(Ctx({}), "def_tier_1_out"),
      CtxWith(Ctx({"questionable"}), "def_tier_2_out"),
      [k \in {"def_tier_1_out", "def_tier_2_out"} |-> FALSE] }

TotalsInputs ==
    [market : {"game"},
     odds : {OddsEntry(22450, 200), OddsEntry(22450, 160)},
     smp : GameSamples,
     home_ctx : Contexts,
     away_ctx : Contexts,
     confirmed : BOOLEAN]

InitTotals ==
    /\ now = TipOff - 20 * TicksPerMinute
    /\ ALERT_DAY = DateOf(now)
    /\ SENT_ALERTS = {}
    /\ DAILY_SENT_ALERTS = {}
    /\ PREGAME_ALERTS = <<>>
    /\ SHOW_INJURIES_IN_DAILY = FALSE
    /\ last_run_date = NoTime
    /\ \E in \in TotalsInputs : call = [op |-> "input", in |-> in]
    /\ calls = 0
    /\ delivered = {}
    /\ tpc = <<>>
    /\ tloc = <<>>

ApplyTotalsDecision ==
    /\ call.op = "input"
    /\ call' = [op |-> "TotalsDecision", in |-> call.in,
                d |-> TotalsDecision(ThreadGameId, call.in.market,
                                     call.in.odds, call.in.smp,
                                     call.in.home_ctx, call.in.away_ctx,
                                     call.in.confirmed)]
    /\ UNCHANGED <<now, ALERT_DAY, SENT_ALERTS, DAILY_SENT_ALERTS,
                   PREGAME_ALERTS, SHOW_INJURIES_IN_DAILY, last_run_date,
                   calls, delivered, tpc, tloc>>

SpecTotals == InitTotals /\ [][ApplyTotalsDecision]_vars

-----------------------------------------------------------------------------
(* Batch sweeps.  daily_auto_run and live_game_monitor each walk the games  *)
(* build_model_inputs() reports and await one run_simulation per game.  A   *)
(* sweep is followed here game by game; the two tasks interleave at their   *)
(* awaits, and each evaluation is taken as one step.  The clock stands at   *)
(* 23:50 UTC, 20 minutes before tip-off: past AUTO_RUN_TIME and inside the  *)
(* [15,30] decision window, so both tasks get as far as the markets.        *)

Sweepers == {"daily", "live"}

\* run_simulation calls after which no further sweep is started
MaxSweepCalls == 3

\* the games the scoreboard reports, in its order
Scoreboard ==
    << SimulationRequest("Denver Nuggets", "Lakers", TipOff),
       SimulationRequest("Celtics", "Heat", TipOff) >>

\* build_model_inputs(): the games, or [] when the scoreboard does not answer
ScoreboardAnswers == {<<>>, Scoreboard}

\* the odds feed during a sweep: the full-game total of both fixtures, the
\* over price missing for the fixtures in `unpriced`
SweepOdds(unpriced) ==
    [k \in {<<"DEN", "LAL">>, <<"BOS", "MIA">>} |->
        [m \in {"totals"} |->
            OddsEntry(22450, IF k \in unpriced THEN NoPrice ELSE 200)]]

SweepOddsMaps ==
    {SweepOdds(unpriced) :
        unpriced \in SUBSET {<<"DEN", "LAL">>, <<"BOS", "MIA">>}}

\* the draws a sweep is followed through: a total that clears every gate
\* with tier ELITE, and a coin flip
SweepSamples ==
    { [fair |-> 22950, below |-> 15000],
      [fair |-> 22500, below |-> 24000] }

SweepDraws(matchup_odds) ==
    {ts \in TotalsDraws(matchup_odds) :
        \A m \in DOMAIN ts : ts[m] \in SweepSamples}

\* the local state of a task that is not in a sweep; log is the history of
\* the task's run_simulation calls, as <<UTC date, game>>
NoSweep ==
    [games |-> <<>>, i |-> 1, evaluated |-> {}, status |-> "none",
     log |-> <<>>]

InitSweep ==
    /\ now = TipOff - 20 * TicksPerMinute
    /\ ALERT_DAY = DateOf(now)
    /\ SENT_ALERTS = {}
    /\ DAILY_SENT_ALERTS = {}
    /\ PREGAME_ALERTS = <<>>
    /\ SHOW_INJURIES_IN_DAILY \in BOOLEAN
    /\ last_run_date = NoTime
    /\ call = NoCall
    /\ calls = 0
    /\ delivered = {}
    /\ tpc = [t \in Sweepers |-> "sleep"]
    /\ tloc = [t \in Sweepers |-> NoSweep]

\* app.py:1191-1196 and app.py:1261-1262: the task wakes, enters its try
\* block and fetches the games
SweepStart(t) ==
    /\ tpc[t] = "sleep"
    /\ calls < MaxSweepCalls
    /\ t = "daily" => should_run(now, last_run_date)
    /\ \E games \in ScoreboardAnswers :
         tloc' = [tloc EXCEPT ![t] = [games |-> games, i |-> 1,
                                      evaluated |-> {},
                                      status |-> "running",
                                      log |-> tloc[t].log]]
    /\ tpc' = [tpc EXCEPT ![t] = "sweep"]
    /\ UNCHANGED <<now, ALERT_DAY, SENT_ALERTS, DAILY_SENT_ALERTS,
                   PREGAME_ALERTS, SHOW_INJURIES_IN_DAILY, last_run_date,
                   call, calls, delivered>>

\* app.py:1230-1247 and app.py:1263-1275: the next game of the sweep is
\* evaluated; an exception leaves the loop for the except clause
SweepGame(t) ==
    /\ tpc[t] = "sweep"
    /\ tloc[t].i <= Len(tloc[t].games)
    /\ \E odds_map \in SweepOddsMaps :
         \E req \in {tloc[t].games[tloc[t].i]} :
           \E ts \in SweepDraws(MatchupOdds(odds_map,
                                             team_name_to_abbr(req.team_a),
                                             team_name_to_abbr(req.team_b))) :
             EvaluateFed(t, req, IgnoresWindow(t), odds_map, ThreadInjuries,
                         [mean |-> 120, wins |-> 27000], ts)
    /\ IF call'.path = "raised"
       THEN /\ tpc' = [tpc EXCEPT ![t] = "sleep"]
            /\ tloc' = [tloc EXCEPT ![t].evaluated = @ \cup {tloc[t].i},
                                    ![t].status = "aborted",
                                    ![t].log = Append(@, <<DateOf(now),
                                                   tloc[t].games[tloc[t].i]>>)]
       ELSE /\ tpc' = tpc
            /\ tloc' = [tloc EXCEPT ![t].evaluated = @ \cup {tloc[t].i},
                                    ![t].i = @ + 1,
                                    ![t].log = Append(@, <<DateOf(now),
                                                   tloc[t].games[tloc[t].i]>>)]
    /\ UNCHANGED <<now, SHOW_INJURIES_IN_DAILY, last_run_date>>

\* app.py:1250-1251 and app.py:1282-1283: the loop is over
SweepEnd(t) ==
    /\ tpc[t] = "sweep"
    /\ tloc[t].i > Len(tloc[t].games)
    /\ tpc' = [tpc EXCEPT ![t] = "sleep"]
    /\ tloc' = [tloc EXCEPT ![t].status = "complete"]
    /\ last_run_date' = IF t = "daily" THEN DateOf(now) ELSE last_run_date
    /\ UNCHANGED <<now, ALERT_DAY, SENT_ALERTS, DAILY_SENT_ALERTS,
                   PREGAME_ALERTS, SHOW_INJURIES_IN_DAILY, call, calls,
                   delivered>>

NextSweep ==
    \E t \in Sweepers : SweepStart(t) \/ SweepGame(t) \/ SweepEnd(t)

SpecSweep == InitSweep /\ [][NextSweep]_vars

-----------------------------------------------------------------------------
(* Pairs of evaluations.  run_simulation is applied twice to one request,   *)
(* one answer of each feed and one alert state, 20 minutes before tip-off,  *)
(* and the two outcomes are kept side by side in `call`.                    *)

\* what the two evaluations of a pair share
PairInputs ==
    [ign : BOOLEAN,
     odds_map : {m \in OddsMaps :
                    has_core_market(MatchupOdds(m, "DEN", "LAL"))},
     injury_map : InjuryMaps]

PairOdds(in) == MatchupOdds(in.odds_map, "DEN", "LAL")

InitPair ==
    /\ now = TipOff - 20 * TicksPerMinute
    /\ ALERT_DAY = DateOf(now)
    /\ SENT_ALERTS = {}
    /\ DAILY_SENT_ALERTS = {}
    /\ PREGAME_ALERTS = <<>>
    /\ SHOW_INJURIES_IN_DAILY \in BOOLEAN
    /\ last_run_date = NoTime
    /\ call = NoCall
    /\ calls = 0
    /\ delivered = {}
    /\ tpc = <<>>
    /\ tloc = <<>>

\* the two outcomes of a pair, with what they shared
Pair(kind, in, a, b) ==
    [op |-> "pair", kind |-> kind, in |-> in, a |-> a, b |-> b]

\* app.py:273: each evaluation builds its own generator, rng =
\* np.random.default_rng(), so two evaluations of the same inputs on the
\* same alert state each take their own draw
PairOfDraws ==
    /\ call = NoCall
    /\ \E in \in PairInputs :
         \E sp1 \in SpreadDraws(PairOdds(in)), sp2 \in SpreadDraws(PairOdds(in)),
            ts1 \in TotalsDraws(PairOdds(in)),
            ts2 \in TotalsDraws(PairOdds(in)) :
           call' = Pair("draws", in,
                        run_simulation(ThreadRequest, in.ign, now, AlertState,
                                       SHOW_INJURIES_IN_DAILY, in.odds_map,
                                       in.injury_map, sp1, ts1),
                        run_simulation(ThreadRequest, in.ign, now, AlertState,
                                       SHOW_INJURIES_IN_DAILY, in.odds_map,
                                       in.injury_map, sp2, ts2))
    /\ UNCHANGED <<now, ALERT_DAY, SENT_ALERTS, DAILY_SENT_ALERTS,
                   PREGAME_ALERTS, SHOW_INJURIES_IN_DAILY, last_run_date,
                   calls, delivered, tpc, tloc>>

\* an evaluation, and then a second one of the same inputs on the alert
\* state the first has left
PairInSequence ==
    /\ call = NoCall
    /\ \E in \in PairInputs :
         \E sp1 \in SpreadDraws(PairOdds(in)), sp2 \in SpreadDraws(PairOdds(in)),
            ts1 \in TotalsDraws(PairOdds(in)),
            ts2 \in TotalsDraws(PairOdds(in)) :
           \E a \in {run_simulation(ThreadRequest, in.ign, now, AlertState,
                                    SHOW_INJURIES_IN_DAILY, in.odds_map,
                                    in.injury_map, sp1, ts1)} :
             call' = Pair("sequence", in, a,
                          run_simulation(ThreadRequest, in.ign, now, a.S,
                                         SHOW_INJURIES_IN_DAILY, in.odds_map,
                                         in.injury_map, sp2, ts2))
    /\ UNCHANGED <<now, ALERT_DAY, SENT_ALERTS, DAILY_SENT_ALERTS,
                   PREGAME_ALERTS, SHOW_INJURIES_IN_DAILY, last_run_date,
                   calls, delivered, tpc, tloc>>

\* two evaluations of the same inputs and the same draw, lineups_confirmed
\* answering False to the first and True to the second; they start from the
\* alert state of the process, or from the one an earlier evaluation of the
\* same inputs has left
PairOfStages ==
    /\ call = NoCall
    /\ \E in \in PairInputs :
         \E sp \in SpreadDraws(PairOdds(in)), ts \in TotalsDraws(PairOdds(in)) :
           \E S \in {AlertState,
                      run_simulation(ThreadRequest, in.ign, now, AlertState,
                                     SHOW_INJURIES_IN_DAILY, in.odds_map,
                                     in.injury_map, sp, ts).S} :
             call' = Pair("stages", in,
                          run_simulation_given(ThreadRequest, in.ign, now, S,
                              SHOW_INJURIES_IN_DAILY, in.odds_map,
                              in.injury_map, sp, ts, FALSE),
                          run_simulation_given(ThreadRequest, in.ign, now, S,
                              SHOW_INJURIES_IN_DAILY, in.odds_map,
                              in.injury_map, sp, ts, TRUE))
    /\ UNCHANGED <<now, ALERT_DAY, SENT_ALERTS, DAILY_SENT_ALERTS,
                   PREGAME_ALERTS, SHOW_INJURIES_IN_DAILY, last_run_date,
                   calls, delivered, tpc, tloc>>

NextPair == PairOfDraws \/ PairInSequence \/ PairOfStages

SpecPair == InitPair /\ [][NextPair]_vars

-----------------------------------------------------------------------------
(* calibrate_prob (app.py:178-179) as a function of the raw probability it  *)
(* is given: raw_over = mean(totals > market_line), a count of draws out of *)
(* SIMULATIONS.                                                             *)

\* the raw probabilities, in ppm
RawProbabilities == {k * (PPM \div SIMULATIONS) : k \in 0..SIMULATIONS}

InitCalibrate ==
    /\ now = TipOff - 20 * TicksPerMinute
    /\ ALERT_DAY = DateOf(now)
    /\ SENT_ALERTS = {}
    /\ DAILY_SENT_ALERTS = {}
    /\ PREGAME_ALERTS = <<>>
    /\ SHOW_INJURIES_IN_DAILY = FALSE
    /\ last_run_date = NoTime
    /\ \E p \in RawProbabilities : call = [op |-> "raw_over", p |-> p]
    /\ calls = 0
    /\ delivered = {}
    /\ tpc = <<>>
    /\ tloc = <<>>

\* cal_over = calibrate_prob(raw_over) (app.py:787)
ApplyCalibrate ==
    /\ call.op = "raw_over"
    /\ call' = [op |-> "calibrate_prob", p |-> call.p,
                out |-> calibrate_prob(call.p)]
    /\ UNCHANGED <<now, ALERT_DAY, SENT_ALERTS, DAILY_SENT_ALERTS,
                   PREGAME_ALERTS, SHOW_INJURIES_IN_DAILY, last_run_date,
                   calls, delivered, tpc, tloc>>

SpecCalibrate == InitCalibrate /\ [][ApplyCalibrate]_vars

-----------------------------------------------------------------------------
(* The math helpers as functions of their arguments (app.py:174-213).     *)
(* A state holds one argument tuple in `call`, then the value computed.   *)

\* the alert state at rest, with `call` holding c
AtRest(c) ==
    /\ now = TipOff - 20 * TicksPerMinute
    /\ ALERT_DAY = DateOf(now)
    /\ SENT_ALERTS = {}
    /\ DAILY_SENT_ALERTS = {}
    /\ PREGAME_ALERTS = <<>>
    /\ SHOW_INJURIES_IN_DAILY = FALSE
    /\ last_run_date = NoTime
    /\ call = c
    /\ calls = 0
    /\ delivered = {}
    /\ tpc = <<>>
    /\ tloc = <<>>

\* cal_over - implied_prob(over_odds) in ppm: every multiple of 5 ppm in
\* -0.15..0.15, every value within 100 ppm of the cap, of its negation and
\* of zero, and a coarse grid out to -2.0 and +1.0
InitCapEdge ==
    \E e \in {k * 5 : k \in -30000..30000}
              \cup (-120100..-119900) \cup (-100..100)
              \cup (119900..120100) \cup {k * 25000 : k \in -80..40} :
        AtRest([op |-> "raw_edge", e |-> e])

\* edge = cap_edge(cal_over - implied_prob(market_odds)) (app.py:815)
ApplyCapEdge ==
    /\ call.op = "raw_edge"
    /\ call' = [op |-> "cap_edge", e |-> call.e, out |-> cap_edge(call.e)]
    /\ UNCHANGED <<now, ALERT_DAY, SENT_ALERTS, DAILY_SENT_ALERTS,
                   PREGAME_ALERTS, SHOW_INJURIES_IN_DAILY, last_run_date,
                   calls, delivered, tpc, tloc>>

SpecCapEdge == InitCapEdge /\ [][ApplyCapEdge]_vars

\* capped edges, in steps of 0.125 percentage points
CappedEdges == {k * 1250 : k \in -96..96}

\* arguments of confidence_score: a capped edge, the mean of the sample
\* against the line 224.5, and the percentile of the line
InitConfidence ==
    \E in \in [edge : CappedEdges,
               fair : {22450 + d : d \in {-1500, -700, -333, -100, 0, 50,
                                          333, 900, 2000}},
               line : {22450},
               pct  : {0, 125, 300, 450, 500, 555, 700, 1000}] :
        AtRest([op |-> "scored", in |-> in])

\* tier = confidence_tier(confidence_score(edge, fair, market_line, pct))
\* (app.py:861)
ApplyConfidence ==
    /\ call.op = "scored"
    /\ \E score \in {confidence_score(call.in.edge, call.in.fair,
                                      call.in.line, call.in.pct)} :
           call' = [op |-> "confidence", in |-> call.in, score |-> score,
                    tier |-> confidence_tier(score)]
    /\ UNCHANGED <<now, ALERT_DAY, SENT_ALERTS, DAILY_SENT_ALERTS,
                   PREGAME_ALERTS, SHOW_INJURIES_IN_DAILY, last_run_date,
                   calls, delivered, tpc, tloc>>

SpecConfidence == InitConfidence /\ [][ApplyConfidence]_vars

\* over prices in hundredths, -3.00..3.00, zero and negative ones included,
\* each paired with a calibrated over probability
InitImpliedProb ==
    \E odds \in -300..300,
       cal \in {calibrate_prob(p) : p \in {200000, 500000, 800000}} :
        AtRest([op |-> "priced", odds |-> odds, cal_over |-> cal])

\* edge = cap_edge(cal_over - implied_prob(market_odds)) (app.py:815):
\* 1 / odds raises ZeroDivisionError for odds = 0 and divides otherwise
ApplyImpliedProb ==
    /\ call.op = "priced"
    /\ call' = [op |-> "implied_prob", odds |-> call.odds,
                cal_over |-> call.cal_over,
                ret |-> IF call.odds = 0 THEN Raised
                        ELSE [kind |-> "value",
                              implied |-> implied_prob(call.odds),
                              edge |-> cap_edge(call.cal_over
                                                - implied_prob(call.odds))]]
    /\ UNCHANGED <<now, ALERT_DAY, SENT_ALERTS, DAILY_SENT_ALERTS,
                   PREGAME_ALERTS, SHOW_INJURIES_IN_DAILY, last_run_date,
                   calls, delivered, tpc, tloc>>

SpecImpliedProb == InitImpliedProb /\ [][ApplyImpliedProb]_vars

-----------------------------------------------------------------------------
(* The situational adjuster and the sampling parameters of each market    *)
(* (app.py:380-428, 529-568, 579-581, 773-780) as functions of the        *)
(* request and of the two injury records.  Points in hundredths, travel   *)
(* in tenths of a kilometre, factors and variance terms in hundredths.    *)

HIGH_ALTITUDE == {"DEN", "UTA"}

\* both travel tiers deducted above the higher threshold
travel_fatigue_stacked(km) ==
    (IF km > 15000 THEN 75 ELSE 0) + (IF km > 8000 THEN 40 ELSE 0)

\* app.py:416-419: the deduction from adj_b for team_b_travel_km
travel_fatigue(km) ==
    IF km > 15000 THEN 75
    ELSE IF km > 8000 THEN 40
    ELSE 0

\* app.py:380-428: adj_a and adj_b after home court, back-to-back, the
\* travel stack, travel fatigue and altitude; home_abbr is team_a's
SituationalAdjust(req, home_abbr) ==
    [adj_a |->
        req.base_team_a_points
        + (IF req.home_team = "A" THEN 250 ELSE 0)
        - (IF req.team_a_b2b
           THEN (IF req.home_team = "A" THEN 100 ELSE 200) ELSE 0)
        + (IF home_abbr \in HIGH_ALTITUDE THEN 60 ELSE 0),
     adj_b |->
        req.base_team_b_points
        + (IF req.home_team = "A" THEN 0 ELSE 250)
        - (IF req.team_b_b2b
           THEN (IF req.home_team = "B" THEN 100 ELSE 200) ELSE 0)
        - (IF req.team_b_b2b /\ req.team_b_travel_km > 8000 THEN 50 ELSE 0)
        - travel_fatigue(req.team_b_travel_km)
        - (IF home_abbr \in HIGH_ALTITUDE THEN 40 ELSE 0)]

\* app.py:545-551: abs(DEF_TOTALS_IMPACT[...]) summed over both records
def_totals_adjust(home_ctx, away_ctx) ==
    (IF CtxFlag(home_ctx, "def_tier_1_out") THEN 125 ELSE 0)
    + (IF CtxFlag(home_ctx, "def_tier_2_out") THEN 75 ELSE 0)
    + (IF CtxFlag(away_ctx, "def_tier_1_out") THEN 125 ELSE 0)
    + (IF CtxFlag(away_ctx, "def_tier_2_out") THEN 75 ELSE 0)

\* app.py:558-564
def_spread_variance(home_ctx, away_ctx) ==
    (IF CtxFlag(home_ctx, "def_tier_1_out") THEN 10 ELSE 0)
    + (IF CtxFlag(home_ctx, "def_tier_2_out") THEN 6 ELSE 0)
    + (IF CtxFlag(away_ctx, "def_tier_1_out") THEN 10 ELSE 0)
    + (IF CtxFlag(away_ctx, "def_tier_2_out") THEN 6 ELSE 0)

\* MARKET_CONFIG (app.py:140-148): mean_factor in hundredths, sd in points
MARKET_CONFIG ==
    [m \in TotalsMarkets \cup {"spread"} |->
        IF m = "game" THEN [mean_factor |-> 100, sd |-> 12]
        ELSE IF m = "spread" THEN [mean_factor |-> 0, sd |-> 12]
        ELSE [mean_factor |-> 25, sd |-> 6]]

\* the totals mean with the pace term left unscaled by mean_factor
adj_mean_pace_unscaled(market, adj, pace_adjust, def_adjust) ==
    (adj.adj_a + adj.adj_b) * MARKET_CONFIG[market].mean_factor
    + pace_adjust * 10 * 100
    + def_adjust * MARKET_CONFIG[market].mean_factor

\* app.py:773-778, in ten-thousandths of a point; pace_adjust in tenths
adj_mean(market, adj, pace_adjust, def_adjust) ==
    (adj.adj_a + adj.adj_b) * MARKET_CONFIG[market].mean_factor
    + pace_adjust * 10 * MARKET_CONFIG[market].mean_factor
    + def_adjust * MARKET_CONFIG[market].mean_factor

\* app.py:780, in hundredths of a point
adj_sd(market, variance_adjust) ==
    MARKET_CONFIG[market].sd * (100 + variance_adjust)

\* app.py:580, in hundredths of a point
spread_mean(adj) == adj.adj_a - adj.adj_b

\* app.py:581, in hundredths of a point
spread_sd(variance_adjust, def_variance) ==
    MARKET_CONFIG["spread"].sd * (100 + variance_adjust + def_variance)

\* team_b_travel_km and team_a_travel_km: at and around both thresholds
TravelDistances == {0, 8000, 8001, 15000, 15001, 30000}

\* the fields of a request the adjuster reads (app.py:154-167)
AdjustRequests ==
    [team_a : {"Denver Nuggets", "Lakers", "Celtics"},
     base_team_a_points : {11500},
     base_team_b_points : {11200},
     home_team : {"A", "B"},
     team_a_travel_km : {0, 30000},
     team_b_travel_km : TravelDistances,
     team_a_b2b : BOOLEAN,
     team_b_b2b : BOOLEAN]

\* the opponent in each request
OpponentOf(team_a) ==
    CASE team_a = "Denver Nuggets" -> "Lakers"
      [] team_a = "Lakers" -> "Denver Nuggets"
      [] team_a = "Celtics" -> "Heat"

\* injury records read by the pace, variance and defensive terms
AdjustContexts ==
    { <<>>,
      Ctx({"tier_1_out"}),
      Ctx({"tier_2_out"}),
      CtxWith(Ctx({}), "def_tier_1_out"),
      CtxWith(Ctx({"tier_1_out", "tier_2_out"}), "def_tier_2_out") }

InitAdjust ==
    \E req \in AdjustRequests, home_ctx \in AdjustContexts,
       away_ctx \in AdjustContexts :
        AtRest([op |-> "request", req |-> req, home_ctx |-> home_ctx,
                away_ctx |-> away_ctx])

\* app.py:380-428 and the mean and sd handed to rng.normal for each market
ApplyAdjust ==
    /\ call.op = "request"
    /\ \E adj \in {SituationalAdjust(call.req,
                                     team_name_to_abbr(call.req.team_a))} :
       \E pace \in {PaceAdjust(call.home_ctx, call.away_ctx)} :
       \E va \in {VarianceAdjust(call.home_ctx, call.away_ctx)} :
       \E def \in {def_totals_adjust(call.home_ctx, call.away_ctx)} :
           call' = [op |-> "adjusted", req |-> call.req,
                    home_ctx |-> call.home_ctx, away_ctx |-> call.away_ctx,
                    home_abbr |-> team_name_to_abbr(call.req.team_a),
                    away_abbr |->
                        team_name_to_abbr(OpponentOf(call.req.team_a)),
                    adj_a |-> adj.adj_a,
                    adj_b |-> adj.adj_b,
                    fatigue |-> travel_fatigue(call.req.team_b_travel_km),
                    pace_adjust |-> pace,
                    variance_adjust |-> va,
                    def_totals_adjust |-> def,
                    mean |-> [m \in TotalsMarkets |->
                                 adj_mean(m, adj, pace, def)],
                    sd |-> [m \in TotalsMarkets |-> adj_sd(m, va)],
                    spread_mean |-> spread_mean(adj),
                    spread_sd |->
                        spread_sd(va, def_spread_variance(call.home_ctx,
                                                          call.away_ctx))]
    /\ UNCHANGED <<now, ALERT_DAY, SENT_ALERTS, DAILY_SENT_ALERTS,
                   PREGAME_ALERTS, SHOW_INJURIES_IN_DAILY, last_run_date,
                   calls, delivered, tpc, tloc>>

SpecAdjust == InitAdjust /\ [][ApplyAdjust]_vars

-----------------------------------------------------------------------------
(* The spread and the moneyline over the range of the margin sample:      *)
(* evaluations of one fixture whose odds entry posts the spread only, so  *)
(* that the market loop reaches the spread and the moneyline and skips    *)
(* every totals market.                                                   *)

\* margin samples drawn with sd 12: the mean in hundredths of a point and
\* the number of draws above zero, from no home win to no away win, with
\* the draws on either side of each threshold of the two filters
SideSamples ==
    { [mean |-> x[1], wins |-> x[2]] : x \in
        { <<0 - 6000, 0>>, <<0 - 1974, 2500>>, <<0 - 1010, 10000>>,
          <<0 - 629, 15000>>, <<0 - 605, 15350>>, <<0 - 602, 15400>>,
          <<0 - 561, 16000>>, <<0 - 528, 16500>>, <<0 - 525, 16550>>,
          <<0 - 367, 19000>>, <<0 - 181, 22000>>, <<0 - 178, 22050>>,
          <<0 - 121, 23000>>, <<0, 25000>>, <<121, 27000>>, <<178, 27950>>,
          <<181, 28000>>, <<199, 28300>>, <<242, 29000>>, <<304, 30000>>,
          <<367, 31000>>, <<525, 33450>>, <<528, 33500>>, <<535, 33600>>,
          <<538, 33650>>, <<561, 34000>>, <<602, 34600>>, <<605, 34650>>,
          <<629, 35000>>, <<699, 36000>>, <<809, 37500>>, <<1538, 45000>>,
          <<6000, 50000>> } }



\* POST /simulate (app.py:1101-1103) for the fixture, 20 minutes before
\* tip-off
EvaluateSides ==
    /\ calls < MaxCalls
    /\ \E sp \in SideSamples :
           EvaluateFed("simulate", ThreadRequest, FALSE, ThreadOdds,
                       ThreadInjuries, sp, <<>>)
    /\ UNCHANGED <<now, SHOW_INJURIES_IN_DAILY, last_run_date, tpc, tloc>>

SpecSides == AtRest(NoCall) /\ [][EvaluateSides]_vars

-----------------------------------------------------------------------------
(* pregame_alert_scheduler over the entries PREGAME_ALERTS can hold: an   *)
(* entry as run_simulation queues it (app.py:317-325), its message either *)
(* still None or assigned (app.py:1086), for one fixture or for two.      *)

\* the entry of a fixture tipping off at game_time; attached says whether
\* a message has been assigned to it
QueuedAlert(home, away, game_time, attached) ==
    [game_time |-> game_time,
     message |-> IF attached
                 THEN [kind |-> "totals", market |-> "game",
                       tier |-> "ELITE",
                       key |-> TotalsKey(GameId(home, away), "game", 22450,
                                         "EARLY",
                                         InjurySignature(Ctx({}), Ctx({})))]
                 ELSE NoMessage,
     home_abbr |-> home, away_abbr |-> away,
     sent_10 |-> FALSE, sent_5 |-> FALSE]

InitScheduler ==
    /\ now = TipOff - 40 * TicksPerMinute
    /\ ALERT_DAY = DateOf(now)
    /\ SENT_ALERTS = {}
    /\ DAILY_SENT_ALERTS = {}
    /\ \E fixtures \in SUBSET {<<"DEN", "LAL">>, <<"BOS", "MIA">>} :
       \E attached \in [fixtures -> BOOLEAN] :
       \E tip \in {TipOff, TipOff + 5 * TicksPerMinute} :
           PREGAME_ALERTS =
               [k \in {PregameKey(GameId(f[1], f[2]), "GAME") :
                          f \in fixtures} |->
                   QueuedAlert(k[1][1], k[1][2],
                               IF k[1][1] = "DEN" THEN tip
                               ELSE TipOff + 22 * 60 * TicksPerMinute,
                               attached[k[1]])]
    /\ SHOW_INJURIES_IN_DAILY = FALSE
    /\ last_run_date = NoTime
    /\ call = NoCall
    /\ calls = 0
    /\ delivered = {}
    /\ tpc = <<>>
    /\ tloc = <<>>

SpecScheduler == InitScheduler /\ [][PregameAlertScheduler \/ Advance]_vars

-----------------------------------------------------------------------------
(* The signal of a totals market (app.py:190-197, 786-856) as a function   *)
(* of the share of draws below the line, on a grid of half a percent,      *)
(* refined to 0.05% between 42% and 58%, at three over prices.  The draws *)
(* are floats and the line a half point: no draw equals the line.          *)

SpecSignal ==
    /\ \E in \in [market : {"game"},
                  odds : {OddsEntry(22450, o) : o \in {160, 200, 300}},
                  smp : [fair : {22450},
                         below : {250 * i : i \in 0..200}
                                     \cup {21000 + 25 * i : i \in 0..320}],
                  home_ctx : {<<>>},
                  away_ctx : {<<>>},
                  confirmed : {FALSE}] :
           AtRest([op |-> "input", in |-> in])
    /\ [][ApplyTotalsDecision]_vars

-----------------------------------------------------------------------------
(* One fixture evaluated again and again within one alert day, 20 minutes  *)
(* before tip-off, the injury feed changing between the evaluations: with  *)
(* a player listed questionable lineups_confirmed answers False, without   *)
(* one True, and the injury signature of the key reads neither flag.       *)

\* run_simulation calls after which the fixture is not evaluated again
MaxStageCalls == 4

\* app.py:1230-1247: an unconditional evaluation of the fixture
StageEvaluate ==
    /\ calls < MaxStageCalls
    /\ \E injury_map \in InjuryMaps,
          smp \in SweepSamples \cup {[fair |-> 22000, below |-> 32000],
                                      [fair |-> 22550, below |-> 21000]} :
         EvaluateFed("daily", ThreadRequest, TRUE, SweepOdds({}), injury_map,
                     [mean |-> 120, wins |-> 27000],
                     [m \in {"game"} |-> smp])
    /\ UNCHANGED <<now, SHOW_INJURIES_IN_DAILY, last_run_date, tpc, tloc>>

SpecStages == AtRest(NoCall) /\ [][StageEvaluate]_vars

-----------------------------------------------------------------------------
(* Properties.  `call` holds the run_simulation call that has just        *)
(* returned: its arguments, the alert state before it, and what it did.   *)

Returned == call.op = "run_simulation"

Resolved(req) ==
    /\ team_name_to_abbr(req.team_a) # None
    /\ team_name_to_abbr(req.team_b) # None

CallGameId ==
    GameId(team_name_to_abbr(call.req.team_a),
           team_name_to_abbr(call.req.team_b))

\* the alert state the call started from, after the day reset at its top
CallBase == reset_alerts_if_new_day(call.at, call.before)

\* C1: the alerts of one market sent by evaluations of the same fixture with
\* the same request and the same odds and injury feed data within one UTC
\* day all come from a single evaluation (at most one alert per market).
C1_DedupIdempotence ==
    \A a, b \in delivered :
        (/\ a.kind # "daily"
         /\ a.kind = b.kind
         /\ a.market = b.market
         /\ a.req = b.req
         /\ a.ign = b.ign
         /\ a.odds_map = b.odds_map
         /\ a.injury_map = b.injury_map
         /\ a.day = b.day)
        => a.n = b.n

\* C2: with evaluations running in concurrent worker threads, an alert with
\* a given fingerprint is handed to delivery by at most one evaluation per
\* alert day.
C2_AtMostOncePerKey ==
    \A a, b \in delivered : (a.key = b.key /\ a.day = b.day) => a.n = b.n

\* C3: at most one run_simulation evaluation is in progress at any time.
C3_OneEvaluationAtATime ==
    Cardinality({t \in DOMAIN tpc : tpc[t] # "idle"}) <= 1

\* C4 (as stated): a call whose team_a or team_b does not resolve returns
\* None and leaves SENT_ALERTS, DAILY_SENT_ALERTS, PREGAME_ALERTS and
\* ALERT_DAY as they were before the call, whatever the clock reads.
C4_UnresolvedLeavesStateUntouched ==
    (Returned /\ ~Resolved(call.req)) =>
        /\ call.ret = ReturnNone
        /\ AlertState = call.before

\* C4 (amended): a call whose team_a or team_b does not resolve returns
\* None, sends nothing and leaves PREGAME_ALERTS as it was; the two alert
\* sets and ALERT_DAY are as they were when the UTC date of the call is
\* ALERT_DAY, and otherwise both sets are empty and ALERT_DAY is that date.
C4_UnresolvedOnlyDayReset ==
    (Returned /\ ~Resolved(call.req)) =>
        /\ call.ret = ReturnNone
        /\ call.out = <<>>
        /\ PREGAME_ALERTS = call.before.pre
        /\ IF DateOf(call.at) = call.before.day
           THEN /\ SENT_ALERTS = call.before.sent
                /\ DAILY_SENT_ALERTS = call.before.daily
                /\ ALERT_DAY = call.before.day
           ELSE /\ SENT_ALERTS = {}
                /\ DAILY_SENT_ALERTS = {}
                /\ ALERT_DAY = DateOf(call.at)

\* an unresolved call made on the day after ALERT_DAY, fingerprints recorded
C4_Witness ==
    /\ Returned
    /\ ~Resolved(call.req)
    /\ call.before.sent # {}
    /\ DateOf(call.at) # call.before.day
    /\ SENT_ALERTS = {}

\* C5: when both team names resolve, run_simulation never returns None; with
\* no game time, no odds for the matchup or no usable market key in the odds
\* entry it returns the empty-markets result.
C5_MissingDataNeverNone ==
    (Returned /\ Resolved(call.req)) =>
        /\ call.ret.kind # "None"
        /\ call.path \in {"no_game_time", "no_odds", "no_core_market"}
              => call.ret = Result(CallGameId, <<>>)

\* C6: every market key of the returned map belongs to a market that passed
\* every gate of the pass, deduplication included.
C6_ResultOnlyIfCleared ==
    (Returned /\ call.ret.kind = "result") =>
        \A m \in DOMAIN call.ret.markets : call.trace[m] = "cleared"

\* minutes-to-tip outside [15,30], [9,11], [1,3] and [-2,0]; d in half-minutes
OutsideEveryWindow(d) ==
    /\ ~(15 * TicksPerMinute <= d /\ d <= 30 * TicksPerMinute)
    /\ ~(9 * TicksPerMinute <= d /\ d <= 11 * TicksPerMinute)
    /\ ~(1 * TicksPerMinute <= d /\ d <= 3 * TicksPerMinute)
    /\ ~((0 - 2) * TicksPerMinute <= d /\ d <= 0)

\* C7: for a resolved fixture with a game time, a call with
\* ignore_time_window false and minutes-to-tip outside every decision window
\* returns the empty markets map, evaluates no market and sends nothing; a
\* call with ignore_time_window true is never stopped by the window gate.
C7_TimeWindowGate ==
    (Returned /\ Resolved(call.req) /\ call.req.game_time # NoTime) =>
        /\ (~call.ign /\ OutsideEveryWindow(call.req.game_time - call.at))
              => /\ call.ret = Result(CallGameId, <<>>)
                 /\ call.trace = NoTrace
                 /\ call.out = <<>>
        /\ call.ign
              => call.path \in {"no_odds", "no_core_market", "raised",
                                "evaluated"}

\* a call 40 minutes before tip-off without ignore_time_window, gated
C7_Witness ==
    /\ Returned
    /\ ~call.ign
    /\ call.req.game_time - call.at = 40 * TicksPerMinute
    /\ call.path = "window"
    /\ call.ret = Result(CallGameId, <<>>)

\* C8: an evaluation in which no market passes deduplication adds nothing to
\* SENT_ALERTS, DAILY_SENT_ALERTS or PREGAME_ALERTS and sends no alert.
C8_OnlyDedupWrites ==
    (Returned /\ \A m \in DOMAIN call.trace : call.trace[m] # "cleared") =>
        /\ SENT_ALERTS = CallBase.sent
        /\ DAILY_SENT_ALERTS = CallBase.daily
        /\ PREGAME_ALERTS = CallBase.pre
        /\ call.out = <<>>

\* C9: a totals market stopped by the trap gate (trap flag set, tier not
\* ELITE) has no result record, causes no alert of any kind and adds no
\* daily fingerprint in that evaluation.
C9_TrapSuppressed ==
    Returned =>
        \A m \in DOMAIN call.trace :
            call.trace[m] = "trap" =>
                /\ call.ret.kind = "result" => m \notin DOMAIN call.ret.markets
                /\ \A i \in DOMAIN call.out : call.out[i].market # m
                /\ \A k \in DAILY_SENT_ALERTS \ CallBase.daily : k[3] # m

TierRank(tier) ==
    CASE tier = "NOISE" -> 0
      [] tier = "LEAN" -> 1
      [] tier = "STRONG" -> 2
      [] tier = "VERY STRONG" -> 3
      [] tier = "ELITE" -> 4

\* either record has a defensive tier-1 or tier-2 player out
AnyDefenderOut(home_ctx, away_ctx) ==
    \E ctx \in {home_ctx, away_ctx} :
        \E key \in {"def_tier_1_out", "def_tier_2_out"} :
            key \in DOMAIN ctx /\ ctx[key]

\* C10: for a totals market that reaches the bump step, the tier recorded is
\* exactly one step above the scored tier when the pick is OVER, the scored
\* tier is LEAN, STRONG or VERY STRONG and either side has a defensive
\* tier-1 or tier-2 player out, and is the scored tier in every other case.
C10_DefensiveBump ==
    (call.op = "TotalsDecision" /\ call.d.gate = "dedup") =>
        TierRank(call.d.record.tier) =
            TierRank(call.d.scored)
            + (IF /\ call.d.bet_side = "OVER"
                  /\ call.d.scored \in {"LEAN", "STRONG", "VERY STRONG"}
                  /\ AnyDefenderOut(call.in.home_ctx, call.in.away_ctx)
               THEN 1 ELSE 0)

\* a total scored LEAN on an OVER pick with a defender out, recorded STRONG
C10_Witness ==
    /\ call.op = "TotalsDecision"
    /\ call.d.gate = "dedup"
    /\ call.d.bet_side = "OVER"
    /\ call.d.scored = "LEAN"
    /\ AnyDefenderOut(call.in.home_ctx, call.in.away_ctx)
    /\ call.d.record.tier = "STRONG"

\* C11: a pass takes the markets in the order game, spread, h2h, q1, q2, q3,
\* q4 (a market is reached only after every market before it); when the
\* moneyline is evaluated the spread of the same pass has been evaluated, and
\* the moneyline record's home and away win percentages are those of the
\* spread record of the same pass.
C11_SpreadBeforeMoneyline ==
    Returned =>
        /\ \A i \in 1..(Len(MarketOrder) - 1) :
              call.trace[MarketOrder[i + 1]] # "unreached"
                  => call.trace[MarketOrder[i]] # "unreached"
        /\ call.trace["h2h"] # "unreached"
              => call.trace["spread"] \notin {"unreached", "unavailable"}
        /\ (call.ret.kind = "result" /\ "h2h" \in DOMAIN call.ret.markets) =>
              /\ "spread" \in DOMAIN call.ret.markets
              /\ call.ret.markets["h2h"].home_win_pct =
                     call.ret.markets["spread"].home_win_pct
              /\ call.ret.markets["h2h"].away_win_pct =
                     call.ret.markets["spread"].away_win_pct

\* a pass that returned a moneyline record of 67.2% to 32.8%
C11_Witness ==
    /\ Returned
    /\ call.ret.kind = "result"
    /\ "h2h" \in DOMAIN call.ret.markets
    /\ call.ret.markets["h2h"].home_win_pct = 672
    /\ call.ret.markets["spread"].away_win_pct = 328
    /\ call.trace["q4"] # "unreached"


\* the markets of the call just returned that registered a fingerprint
ClearedMarkets(c) == {m \in DOMAIN c.trace : c.trace[m] = "cleared"}

\* C12: a step that leaves ALERT_DAY alone removes no key from SENT_ALERTS or
\* DAILY_SENT_ALERTS; ALERT_DAY changes only in a run_simulation call made
\* on another UTC date, every call leaves ALERT_DAY at the date of the call,
\* and a call made on another date leaves in the two sets only what the call
\* itself registered after emptying them.
C12_OnlyDayResetRemoves ==
    [][ /\ ALERT_DAY' = ALERT_DAY =>
              /\ SENT_ALERTS \subseteq SENT_ALERTS'
              /\ DAILY_SENT_ALERTS \subseteq DAILY_SENT_ALERTS'
        /\ calls' = calls => ALERT_DAY' = ALERT_DAY
        /\ calls' # calls =>
              /\ ALERT_DAY' = DateOf(now)
              /\ DateOf(now) # ALERT_DAY =>
                    /\ Cardinality(SENT_ALERTS')
                          <= Cardinality(ClearedMarkets(call'))
                    /\ ClearedMarkets(call') = {} => SENT_ALERTS' = {}
                    /\ (~call'.ign \/ call'.trace = NoTrace)
                          => DAILY_SENT_ALERTS' = {}
      ]_vars

\* a call on the day after ALERT_DAY that found fingerprints recorded, and
\* left only fingerprints of its own
C12_Witness ==
    /\ Returned
    /\ DateOf(call.at) # call.before.day
    /\ call.before.sent # {}
    /\ call.path = "evaluated"
    /\ SENT_ALERTS # {}
    /\ SENT_ALERTS \cap call.before.sent = {}
    /\ ALERT_DAY = DateOf(call.at)

\* C13: an evaluation that leaves a new entry in PREGAME_ALERTS is one in
\* which some market of the fixture cleared every gate.
C13_PendingOnlyIfCleared ==
    Returned =>
        (DOMAIN PREGAME_ALERTS # DOMAIN call.before.pre
            => ClearedMarkets(call) # {})

\* C14: when a totals market clears every gate, deduplication included, its
\* message is handed to send_telegram_alert in that evaluation or is held by
\* an entry of PREGAME_ALERTS when the evaluation returns.
C14_ClearedTotalsMessageKept ==
    Returned =>
        \A m \in ClearedMarkets(call) \cap TotalsMarkets :
            \/ \E i \in DOMAIN call.out :
                  call.out[i].kind = "totals" /\ call.out[i].market = m
            \/ \E k \in DOMAIN PREGAME_ALERTS :
                  /\ PREGAME_ALERTS[k].message.kind = "totals"
                  /\ PREGAME_ALERTS[k].message.market = m

\* C15: every step keeps every entry of PREGAME_ALERTS, with its game time
\* and teams; a sent flag that is set stays set, a flag changes only in a
\* pass of pregame_alert_scheduler, and a message once attached is kept.
C15_PendingEntriesKept ==
    [][ \A k \in DOMAIN PREGAME_ALERTS :
          /\ k \in DOMAIN PREGAME_ALERTS'
          /\ PREGAME_ALERTS'[k].game_time = PREGAME_ALERTS[k].game_time
          /\ PREGAME_ALERTS'[k].home_abbr = PREGAME_ALERTS[k].home_abbr
          /\ PREGAME_ALERTS'[k].away_abbr = PREGAME_ALERTS[k].away_abbr
          /\ PREGAME_ALERTS[k].sent_10 => PREGAME_ALERTS'[k].sent_10
          /\ PREGAME_ALERTS[k].sent_5 => PREGAME_ALERTS'[k].sent_5
          /\ (\/ PREGAME_ALERTS'[k].sent_10 # PREGAME_ALERTS[k].sent_10
              \/ PREGAME_ALERTS'[k].sent_5 # PREGAME_ALERTS[k].sent_5)
                => (calls' = calls /\ call = NoCall /\ call' = NoCall)
          /\ PREGAME_ALERTS[k].message # NoMessage
                => PREGAME_ALERTS'[k].message = PREGAME_ALERTS[k].message
      ]_vars

\* an evaluation of a fixture whose entry exists, made inside the prequeue
\* range on the day after ALERT_DAY: the reset ran and the entry is as it was
C15_Witness ==
    /\ Returned
    /\ PregameKey(CallGameId, "GAME") \in DOMAIN call.before.pre
    /\ call.req.game_time - call.at >= 1 * TicksPerMinute
    /\ call.req.game_time - call.at <= 15 * TicksPerMinute
    /\ DateOf(call.at) # call.before.day
    /\ ALERT_DAY = DateOf(call.at)
    /\ PREGAME_ALERTS = call.before.pre

\* C16: when a sweep of daily_auto_run or live_game_monitor is over, every
\* game build_model_inputs() reported for it has been evaluated, whether or
\* not run_simulation raised for one of them.
C16_SweepEvaluatesEveryGame ==
    \A t \in DOMAIN tpc :
        tloc[t].status \in {"complete", "aborted"}
            => tloc[t].evaluated = 1..Len(tloc[t].games)

\* C17: two evaluations given the same request, the same feed answers and
\* the same alert state return the same result and hand the same alerts to
\* send_telegram_alert.
C17_SameInputsSameOutcome ==
    (call.op = "pair" /\ call.kind = "draws") =>
        /\ call.a.ret = call.b.ret
        /\ call.a.out = call.b.out

\* the totals markets both evaluations of a pair took as far as deduplication
BothAtDedup(a, b) ==
    {m \in TotalsMarkets : /\ a.trace[m] \in {"cleared", "duplicate"}
                           /\ b.trace[m] \in {"cleared", "duplicate"}}

\* C18: when a totals market clears in one evaluation and the next
\* evaluation of the same fixture, with the same line, stage and injury
\* flags, gives the market another tier, the second fingerprint is another
\* one and the market clears again.
C18_TierInFingerprint ==
    (call.op = "pair" /\ call.kind = "sequence") =>
        \A m \in BothAtDedup(call.a, call.b) :
            (/\ call.a.trace[m] = "cleared"
             /\ call.a.ret.markets[m].tier # call.b.ret.markets[m].tier)
            => /\ call.a.locals[m].key # call.b.locals[m].key
               /\ call.b.trace[m] = "cleared"

\* C19: two evaluations that differ only in the answer of lineups_confirmed
\* return the same value, the results map included, and take every market to
\* the same gate or to deduplication; the markets that reach the stage step
\* differ in their stage label and in their fingerprint.
C19_StageNeverGates ==
    (call.op = "pair" /\ call.kind = "stages") =>
        /\ call.a.ret = call.b.ret
        /\ \A m \in DOMAIN call.a.trace :
              \/ call.a.trace[m] = call.b.trace[m]
              \/ {call.a.trace[m], call.b.trace[m]} = {"cleared", "duplicate"}
        /\ \A m \in BothAtDedup(call.a, call.b) :
              /\ call.a.locals[m].bet_stage = "EARLY"
              /\ call.b.locals[m].bet_stage = "CONFIRMED"
              /\ call.a.locals[m].key # call.b.locals[m].key

\* the full-game total suppressed as a duplicate at the early stage and
\* cleared at the confirmed stage, with the same record in both results
C19_Witness ==
    /\ call.op = "pair"
    /\ call.kind = "stages"
    /\ call.a.trace["game"] = "duplicate"
    /\ call.b.trace["game"] = "cleared"
    /\ call.a.ret.kind = "result"
    /\ "game" \in DOMAIN call.a.ret.markets
    /\ call.a.ret.markets["game"] = call.b.ret.markets["game"]

\* C20: for every raw probability p (a count of draws out of SIMULATIONS),
\* calibrate_prob(p) with the default strength lies strictly between p and
\* 0.5 when p is not 0.5, and calibrate_prob(0.5) is 0.5.
C20_CalibrationShrinks ==
    call.op = "calibrate_prob" =>
        IF call.p = PPM \div 2
        THEN call.out = PPM \div 2
        ELSE \/ call.p < call.out /\ call.out < PPM \div 2
             \/ PPM \div 2 < call.out /\ call.out < call.p

\* the raw probability 0.70 calibrated to 0.63
C20_Witness ==
    /\ call.op = "calibrate_prob"
    /\ call.p = 700000
    /\ call.out = 630000

\* the sign of an integer: -1, 0 or 1
Sign(x) == IF x < 0 THEN -1 ELSE IF x > 0 THEN 1 ELSE 0

\* C21: for every edge e, cap_edge(e) has absolute value at most the cap
\* 0.12, equals e when |e| is at most the cap, has the sign of e (zero only
\* when e is zero), and cap_edge(-e) = -cap_edge(e).
C21_CapEdgeClamp ==
    call.op = "cap_edge" =>
        /\ Abs(call.out) <= 120000
        /\ Abs(call.e) <= 120000 => call.out = call.e
        /\ Sign(call.out) = Sign(call.e)
        /\ cap_edge(-call.e) = -call.out

\* an edge of -0.20 clamped to -0.12
C21_Witness ==
    /\ call.op = "cap_edge"
    /\ call.e = -200000
    /\ call.out = -120000

\* C22: for fixed fair, line and percentile, confidence_score lies in 0..100
\* and is non-decreasing in |edge|, confidence_tier is a non-decreasing step
\* function of the score over NOISE < LEAN < STRONG < VERY STRONG < ELITE, so
\* a larger |edge| never yields a lower tier.
C22_TierMonotoneInEdge ==
    call.op = "confidence" =>
        /\ call.score \in 0..100
        /\ \A e \in CappedEdges :
               Abs(e) >= Abs(call.in.edge) =>
                   \E s \in {confidence_score(e, call.in.fair, call.in.line,
                                              call.in.pct)} :
                       /\ s >= call.score
                       /\ TierRank(confidence_tier(s)) >= TierRank(call.tier)
        /\ \A s \in 0..100 :
               s >= call.score =>
                   TierRank(confidence_tier(s)) >= TierRank(call.tier)

\* an edge of -0.12 scored 77, ELITE, where no edge at all scores NOISE
C22_Witness ==
    /\ call.op = "confidence"
    /\ call.in.edge = -120000
    /\ call.in.fair = 22783
    /\ call.in.pct = 300
    /\ call.score = 77
    /\ call.tier = "ELITE"
    /\ confidence_tier(confidence_score(0, 22783, 22450, 300)) = "NOISE"

\* C23: implied_prob(odds) returns 1/odds for odds > 0 and raises for every
\* odds <= 0, zero and negative alike, so no edge is computed from a
\* non-positive over price.
C23_NonPositivePriceFails ==
    call.op = "implied_prob" =>
        IF call.odds > 0
        THEN /\ call.ret.kind = "value"
             /\ call.ret.implied = (PPM * 100) \div call.odds
        ELSE call.ret.kind = "raise"

\* the adjustment the adjuster made to the side designated home
HomeDelta ==
    IF call.req.home_team = "A"
    THEN call.adj_a - call.req.base_team_a_points
    ELSE call.adj_b - call.req.base_team_b_points

\* the adjustment the adjuster made to the side not designated home
AwayDelta ==
    IF call.req.home_team = "A"
    THEN call.adj_b - call.req.base_team_b_points
    ELSE call.adj_a - call.req.base_team_a_points

HomeB2B ==
    IF call.req.home_team = "A" THEN call.req.team_a_b2b
    ELSE call.req.team_b_b2b

AwayB2B ==
    IF call.req.home_team = "A" THEN call.req.team_b_b2b
    ELSE call.req.team_a_b2b

AwayTravel ==
    IF call.req.home_team = "A" THEN call.req.team_b_travel_km
    ELSE call.req.team_a_travel_km

\* the venue of the side designated home is a high-altitude one
HomeAtAltitude ==
    (IF call.req.home_team = "A" THEN call.home_abbr ELSE call.away_abbr)
        \in HIGH_ALTITUDE

\* C24: for both values of home_team the adjustments are relative to the
\* designated home side: it receives the home-court bonus, the altitude
\* bonus of its venue and the smaller back-to-back penalty; the other side
\* receives the larger back-to-back penalty, the travel x back-to-back
\* stack, the travel fatigue of its distance and the altitude penalty.
C24_AdjustedRelativeToHome ==
    call.op = "adjusted" =>
        /\ HomeDelta = 250 - (IF HomeB2B THEN 100 ELSE 0)
                           + (IF HomeAtAltitude THEN 60 ELSE 0)
        /\ AwayDelta = 0 - (IF AwayB2B THEN 200 ELSE 0)
                         - (IF AwayB2B /\ AwayTravel > 8000 THEN 50 ELSE 0)
                         - travel_fatigue(AwayTravel)
                         - (IF HomeAtAltitude THEN 40 ELSE 0)

\* the sampling parameters of an adjusted request: every totals market has
\* mean (adj_a + adj_b + pace_adjust + def_totals_adjust) x mean_factor and
\* sd base_sd x (1 + variance_adjust); the spread has mean adj_a - adj_b,
\* and the defensive flags add only to its sd
SamplingParameters ==
    /\ \A m \in TotalsMarkets :
           /\ call.mean[m] =
                  (call.adj_a + call.adj_b + call.pace_adjust * 10
                       + call.def_totals_adjust)
                      * (IF m = "game" THEN 100 ELSE 25)
           /\ call.sd[m] =
                  (IF m = "game" THEN 12 ELSE 6)
                      * (100 + call.variance_adjust)
    /\ call.spread_mean = call.adj_a - call.adj_b
    /\ call.spread_sd - 12 * (100 + call.variance_adjust) =
           12 * def_spread_variance(call.home_ctx, call.away_ctx)

\* baselines 115 and 112, side A home, no injuries, travel or back-to-back
ScenarioA ==
    /\ call.req.base_team_a_points = 11500
    /\ call.req.base_team_b_points = 11200
    /\ call.req.home_team = "A"
    /\ ~call.req.team_a_b2b /\ ~call.req.team_b_b2b
    /\ call.req.team_a_travel_km = 0 /\ call.req.team_b_travel_km = 0
    /\ \A ctx \in {call.home_ctx, call.away_ctx} :
           \A k \in DOMAIN ctx : ~ctx[k]

\* C25 as stated: the sampling parameters are as above and, with baselines
\* 115 and 112, side A home and no injuries, travel or back-to-back, the
\* full-game mean is 229.5.
C25_SamplingParameters ==
    call.op = "adjusted" =>
        /\ SamplingParameters
        /\ ScenarioA => call.mean["game"] = 2295000

\* C25 amended: the sampling parameters are as above and, with baselines
\* 115 and 112, side A home and no injuries, travel or back-to-back, the
\* full-game mean is 229.5 when team_a's venue is not a high-altitude one
\* and 229.7 when it is.
C25_SamplingParametersByVenue ==
    call.op = "adjusted" =>
        /\ SamplingParameters
        /\ ScenarioA =>
               call.mean["game"] =
                   IF call.home_abbr \in HIGH_ALTITUDE THEN 2297000
                   ELSE 2295000

\* Lakers at home to the Nuggets with a top-tier player out: full-game mean
\* 231.0 and quarter means 57.75, sd 21.6 and 10.8
C25_Witness ==
    /\ call.op = "adjusted"
    /\ call.req.team_a = "Lakers" /\ call.req.home_team = "A"
    /\ ~call.req.team_a_b2b /\ ~call.req.team_b_b2b
    /\ call.req.team_b_travel_km = 0
    /\ call.home_ctx = Ctx({"tier_1_out"}) /\ call.away_ctx = <<>>
    /\ call.mean["game"] = 2310000
    /\ call.mean["q1"] = 577500
    /\ call.sd["game"] = 2160 /\ call.sd["q1"] = 1080
    /\ call.spread_mean = 550

\* C26: the travel-fatigue tiers are mutually exclusive: for every away
\* travel distance exactly one of the deductions 0 (distance <= 800 km),
\* 0.4 (800 < distance <= 1500) or 0.75 (distance > 1500) is taken from
\* adj_b, never both tiers, and the deduction is non-decreasing in distance.
C26_TravelTiersExclusive ==
    call.op = "adjusted" =>
        /\ call.fatigue =
               IF call.req.team_b_travel_km <= 8000 THEN 0
               ELSE IF call.req.team_b_travel_km <= 15000 THEN 40
               ELSE 75
        /\ \E rested \in {SituationalAdjust(
                              [call.req EXCEPT !.team_b_travel_km = 0],
                              call.home_abbr)} :
               rested.adj_b - call.adj_b =
                   call.fatigue
                   + (IF call.req.team_b_b2b
                         /\ call.req.team_b_travel_km > 8000
                      THEN 50 ELSE 0)
        /\ \A km \in TravelDistances :
               km >= call.req.team_b_travel_km =>
                   travel_fatigue(km) >= call.fatigue

\* an away side that travelled 3000 km without a back-to-back loses 0.75,
\* not 1.15
C26_Witness ==
    /\ call.op = "adjusted"
    /\ call.req.team_b_travel_km = 30000
    /\ ~call.req.team_b_b2b
    /\ call.req.home_team = "A"
    /\ call.home_abbr = "LAL"
    /\ call.fatigue = 75
    /\ call.adj_b = 11200 - 75

\* C27: daily_auto_run starts a sweep only at or after 21:50 UTC, and the
\* unconditional scan evaluates no fixture more than once on the same UTC
\* date, whatever happens during the sweep.
C27_DailySweepOncePerDate ==
    /\ tpc["daily"] = "sweep" => now % TicksPerDay >= AutoRunTime
    /\ \A i, j \in DOMAIN tloc["daily"].log :
           tloc["daily"].log[i] = tloc["daily"].log[j] => i = j

\* the win percentage of the moneyline pick in the record results["h2h"]
PickPct(r) == Max(r.home_win_pct, r.away_win_pct)

\* the fair odds of the moneyline pick in the record results["h2h"]
PickOdds(r) ==
    IF r.home_win_pct > r.away_win_pct THEN r.fair_home_odds
    ELSE r.fair_away_odds

\* C28: a moneyline alert is sent only if the pick's win-probability tier is
\* not NO BET (pick win pct >= 56), the pick's win pct is at least 52, its
\* fair odds are at least 1.45 and either below 2.30 or of tier ELITE, and
\* its key was not in SENT_ALERTS.
C28_MoneylineOnlyIfAllowed ==
    Returned =>
        \A i \in DOMAIN call.out :
            call.out[i].market = "h2h" =>
                /\ call.ret.kind = "result"
                /\ "h2h" \in DOMAIN call.ret.markets
                /\ \E r \in {call.ret.markets["h2h"]} :
                       /\ win_prob_tier(PickPct(r)) # "NO BET"
                       /\ PickPct(r) >= 560
                       /\ PickPct(r) >= 520
                       /\ PickOdds(r) >= 145
                       /\ PickOdds(r) < 230 \/ call.out[i].tier = "ELITE"
                       /\ call.out[i].tier = win_prob_tier(PickPct(r))
                /\ call.out[i].key \notin CallBase.sent

\* a moneyline alert for an away pick at 69.2 %, fair odds 1.45
C28_Witness ==
    /\ Returned
    /\ \E i \in DOMAIN call.out :
           /\ call.out[i].market = "h2h"
           /\ call.out[i].tier = "VERY STRONG"
    /\ call.ret.kind = "result"
    /\ "h2h" \in DOMAIN call.ret.markets
    /\ call.ret.markets["h2h"].away_win_pct = 692
    /\ call.ret.markets["h2h"].fair_away_odds = 145

\* C29: a spread alert is sent only if |fair_spread| >= 2.0, the tier of the
\* larger win percentage is ELITE or VERY STRONG (win pct >= 67) and its key
\* was not in SENT_ALERTS; allow_spread_bet rejects no signal that reaches
\* it.
C29_SpreadOnlyIfAllowed ==
    Returned =>
        /\ \A i \in DOMAIN call.out :
               call.out[i].market = "spread" =>
                   /\ call.ret.kind = "result"
                   /\ "spread" \in DOMAIN call.ret.markets
                   /\ \E r \in {call.ret.markets["spread"]} :
                          /\ Abs(r.fair_spread) >= 20
                          /\ Max(r.home_win_pct, r.away_win_pct) >= 670
                          /\ call.out[i].tier =
                                 win_prob_tier(Max(r.home_win_pct,
                                                   r.away_win_pct))
                          /\ call.out[i].tier \in {"ELITE", "VERY STRONG"}
                   /\ call.out[i].key \notin CallBase.sent
        /\ call.trace["spread"] # "filter"

\* a spread alert for an away side at 67.0 %, fair spread +5.3
C29_Witness ==
    /\ Returned
    /\ \E i \in DOMAIN call.out :
           /\ call.out[i].market = "spread"
           /\ call.out[i].tier = "VERY STRONG"
    /\ call.ret.kind = "result"
    /\ "spread" \in DOMAIN call.ret.markets
    /\ call.ret.markets["spread"].away_win_pct = 670
    /\ call.ret.markets["spread"].fair_spread = 53
    /\ call.trace["spread"] = "cleared"

\* the alerts pregame_alert_scheduler has handed to send_telegram_alert
SchedulerSends == {d \in delivered : d.kind \in {"5min", "late"}}

\* C30: for each PREGAME_ALERTS entry pregame_alert_scheduler calls
\* send_telegram_alert at most once over any sequence of passes, and only at
\* or after 10 minutes before the entry's game_time; an entry it has sent
\* has sent_5 true, and no later pass sends for it.
C30_SchedulerSendsOnce ==
    /\ \A a, b \in SchedulerSends :
           a.key = b.key => (a.n = b.n /\ a.kind = b.kind)
    /\ \A d \in SchedulerSends :
           /\ d.key \in DOMAIN PREGAME_ALERTS
           /\ d.n >= PREGAME_ALERTS[d.key].game_time - 10 * TicksPerMinute
           /\ PREGAME_ALERTS[d.key].sent_5

\* the entry of Nuggets v Lakers was sent 10 minutes before its tip-off and
\* a day has since gone by with the scheduler passing over it
C30_Witness ==
    /\ now = TipOff + 22 * 60 * TicksPerMinute
    /\ \E d \in SchedulerSends :
           /\ d.key = PregameKey(GameId("DEN", "LAL"), "GAME")
           /\ d.n = TipOff - 10 * TicksPerMinute
           /\ PREGAME_ALERTS[d.key].game_time = TipOff
           /\ PREGAME_ALERTS[d.key].sent_5

\* C31: pregame_alert_scheduler never sends or concatenates an unset
\* message: an entry whose message is None has sent_5 false and no alert
\* sent for it, whatever the time, a pass over it at any time sends nothing,
\* leaves it as it is and does not raise, and no pass over any entry raises.
C31_UnsetMessageSkipped ==
    \A k \in DOMAIN PREGAME_ALERTS :
        /\ ~SchedulerEntry(k, PREGAME_ALERTS[k], now).raised
        /\ PREGAME_ALERTS[k].message = NoMessage =>
               /\ ~PREGAME_ALERTS[k].sent_5
               /\ \A d \in delivered : d.key # k
               /\ SchedulerEntry(k, PREGAME_ALERTS[k], now).send = {}
               /\ SchedulerEntry(k, PREGAME_ALERTS[k], now).alert =
                      PREGAME_ALERTS[k]

\* a day after the tip-off of Nuggets v Lakers, whose entry has no message:
\* the pass that sent the entry of Celtics v Heat left it unsent
C31_Witness ==
    /\ now = TipOff + 22 * 60 * TicksPerMinute
    /\ \E k \in DOMAIN PREGAME_ALERTS :
           /\ PREGAME_ALERTS[k].message = NoMessage
           /\ PREGAME_ALERTS[k].game_time <= TipOff + 5 * TicksPerMinute
           /\ ~PREGAME_ALERTS[k].sent_5
    /\ \E d \in delivered :
           /\ d.kind = "5min"
           /\ d.n = now
           /\ d.key = PregameKey(GameId("BOS", "MIA"), "GAME")

\* C32: in an unconditional scan (ignore_time_window true), a totals market
\* that passes the coin-flip and edge-floor gates with tier ELITE or VERY
\* STRONG has its daily key registered; when the key was not yet registered
\* in the alert day the evaluation sends exactly one daily alert for the
\* market, whatever SHOW_INJURIES_IN_DAILY is, and when it was already
\* registered the evaluation sends no daily alert for it.
C32_DailyAlertOncePerKey ==
    (Returned /\ call.ign) =>
        \A m \in DOMAIN call.locals \cap TotalsMarkets :
            (/\ call.trace[m] \in {"trap", "duplicate", "cleared"}
             /\ call.locals[m].tier \in {"ELITE", "VERY STRONG"}) =>
                LET keys == {k \in DAILY_SENT_ALERTS :
                                /\ k[2] = CallGameId
                                /\ k[3] = m
                                /\ k[5] = call.locals[m].tier}
                    sent == {i \in DOMAIN call.out :
                                /\ call.out[i].kind = "daily"
                                /\ call.out[i].market = m}
                IN  /\ keys # {}
                    /\ IF keys \cap CallBase.daily = {}
                       THEN Cardinality(sent) = 1
                       ELSE sent = {}

\* C33: the daily-alert step of run_simulation never fails: in an
\* unconditional scan a totals market that was priced and passed the edge
\* floor does not end in an exception, for both settings of
\* SHOW_INJURIES_IN_DAILY, for every tier and whether or not its daily key
\* is already in DAILY_SENT_ALERTS.
C33_DailyStepNeverFails ==
    (Returned /\ call.ign) =>
        \A m \in DOMAIN call.locals \cap TotalsMarkets :
            RoundHalfEven(Abs(call.locals[m].edge), 100) >= 200 =>
                call.trace[m] # "raise"

\* C34: no totals market with tier NOISE is written to the results map, and
\* none is fingerprinted in SENT_ALERTS: a totals market is registered and
\* recorded only when its confidence tier is LEAN or better.
C34_NoiseNeverRegistered ==
    (Returned /\ call.ret.kind = "result") =>
        \A m \in DOMAIN call.ret.markets \cap TotalsMarkets :
            /\ call.ret.markets[m].tier # "NOISE"
            /\ call.locals[m].key \in SENT_ALERTS \ CallBase.sent =>
                   call.locals[m].tier # "NOISE"

\* C35: for every totals market that passes the edge-floor gate the pick
\* direction agrees with the sign of the edge: an OVER pick has edge >= +0.02
\* and an UNDER pick has edge <= -0.02, the edge being the capped difference
\* between the calibrated over-probability and the probability implied by
\* the over price.
C35_PickAgreesWithEdge ==
    (call.op = "TotalsDecision" /\ call.d.gate \in {"trap", "dedup"}) =>
        /\ call.d.bet_side = "OVER" => call.d.edge >= 20000
        /\ call.d.bet_side = "UNDER" => call.d.edge <= -20000

\* C36: every totals record written to the results map has signal BET,
\* WATCH OVER or WATCH UNDER, never PASS, and a WATCH label names the pick
\* direction: a market past the coin-flip gate has its percentile below 45
\* when the pick is OVER and above 55 when the pick is UNDER.
C36_SignalNeverPass ==
    call.op = "TotalsDecision" =>
        /\ call.d.gate # "coinflip" =>
               /\ call.d.bet_side = "OVER" => call.d.record.pct < 450
               /\ call.d.bet_side = "UNDER" => call.d.record.pct > 550
        /\ call.d.gate = "dedup" =>
               /\ call.d.record.signal \in {"BET", "WATCH OVER", "WATCH UNDER"}
               /\ call.d.record.signal = "WATCH OVER" =>
                      call.d.bet_side = "OVER"
               /\ call.d.record.signal = "WATCH UNDER" =>
                      call.d.bet_side = "UNDER"

\* both WATCH labels are written, an OVER pick just past the coin-flip gate
\* among them
C36_Witness ==
    /\ call.op = "TotalsDecision"
    /\ call.d.gate = "dedup"
    /\ call.d.bet_side = "OVER"
    /\ call.d.record.signal = "WATCH OVER"
    /\ call.d.record.pct > 425

\* the fingerprints of totals markets in SENT_ALERTS that share fixture,
\* market, line and injury signature with k
SameButStage(k) ==
    {j \in SENT_ALERTS : /\ Len(j) = 6
                         /\ j[1] = k[1]
                         /\ j[2] = k[2]
                         /\ j[3] = k[3]
                         /\ j[5] = k[5]}

\* C37: within one alert day and for a fixed fixture, totals market, line
\* and injury signature at most two fingerprints are registered in
\* SENT_ALERTS, one per stage (EARLY and CONFIRMED), however many
\* evaluations run and however often lineup confirmation flips.
C37_TwoFingerprintsPerStage ==
    \A k \in SENT_ALERTS :
        Len(k) = 6 =>
            /\ k[4] \in {"EARLY", "CONFIRMED"}
            /\ Cardinality(SameButStage(k)) <= 2

\* after four evaluations, the confirmation having flipped, both stages of
\* one market are registered and the last evaluation was a duplicate
C37_Witness ==
    /\ calls = MaxStageCalls
    /\ Returned
    /\ call.trace["game"] = "duplicate"
    /\ \E k \in SENT_ALERTS :
           /\ Len(k) = 6
           /\ {j[4] : j \in SameButStage(k)} = {"EARLY", "CONFIRMED"}

\* C38: no moneyline alert is sent with tier ELITE: a pick win percentage of
\* 72 or more has fair odds below 1.45 and is rejected by the vig-trap rule;
\* the pick is the side with the larger win percentage, so its fair odds
\* never reach 2.30; every moneyline alert sent has tier LEAN, STRONG or
\* VERY STRONG.
C38_NoEliteMoneyline ==
    Returned =>
        /\ \A i \in DOMAIN call.out :
               call.out[i].market = "h2h" =>
                   call.out[i].tier \in {"LEAN", "STRONG", "VERY STRONG"}
        /\ (call.ret.kind = "result" /\ "h2h" \in DOMAIN call.ret.markets) =>
               \E r \in {call.ret.markets["h2h"]} :
                   /\ PickOdds(r) < 230
                   /\ PickPct(r) >= 720 =>
                          /\ win_prob_tier(PickPct(r)) = "ELITE"
                          /\ PickOdds(r) < 145
                          /\ call.trace["h2h"] = "filter"
                          /\ \A i \in DOMAIN call.out :
                                 call.out[i].market # "h2h"

\* a home pick at exactly 72.0 %, fair odds 1.39, stopped by the filter
C38_Witness ==
    /\ Returned
    /\ call.ret.kind = "result"
    /\ "h2h" \in DOMAIN call.ret.markets
    /\ call.ret.markets["h2h"].home_win_pct = 720
    /\ call.ret.markets["h2h"].fair_home_odds = 139
    /\ call.trace["h2h"] = "filter"
    /\ \A i \in DOMAIN call.out : call.out[i].market # "h2h"

\* C39: with the injury records get_injury_context produces, which carry no
\* def_tier key, in every evaluation def_totals_adjust and
\* def_spread_variance are 0, the defensive confidence bump does not fire
\* (the tier written is the tier scored), and the four defensive components
\* of the injury signature in the dedup key are always None.
C39_DefensiveInert ==
    (Returned /\ call.path \in {"evaluated", "raised"}) =>
        \E h \in {MapGet(call.injury_map,
                         team_name_to_abbr(call.req.team_a), <<>>)},
           a \in {MapGet(call.injury_map,
                         team_name_to_abbr(call.req.team_b), <<>>)} :
            /\ def_totals_adjust(h, a) = 0
            /\ def_spread_variance(h, a) = 0
            /\ ~DefensiveOut(h, a)
            /\ \A m \in DOMAIN call.locals \cap TotalsMarkets :
                   /\ \A i \in 5..8 : call.locals[m].key[5][i] = "None"
                   /\ (call.ret.kind = "result"
                       /\ m \in DOMAIN call.ret.markets) =>
                          call.ret.markets[m].tier = call.locals[m].tier

\* an OVER pick scored below ELITE and above NOISE, the feed having answered
\* with a record for each team, is written with the tier it was scored
C39_Witness ==
    /\ Returned
    /\ call.path = "evaluated"
    /\ call.injury_map # <<>>
    /\ \E m \in DOMAIN call.locals \cap DOMAIN call.ret.markets :
           /\ call.trace[m] = "cleared"
           /\ call.locals[m].bet_side = "OVER"
           /\ call.locals[m].tier \in {"LEAN", "STRONG", "VERY STRONG"}
           /\ call.ret.markets[m].tier = call.locals[m].tier
           /\ call.locals[m].key[5][1] = "False"

=============================================================================
